---- MODULE Spec2Model ----
(***************************************************************************)
(* Model of the crash-safe MP4 recorder (mp4CrashRecorder).                *)
(*                                                                         *)
(* One output path P with its two sidecars P.idx and P.lock, one           *)
(* Mp4Recorder object, and the file system as the operating system sees    *)
(* it.  Every IFile handle is a stdio stream: bytes handed to write() sit  *)
(* in the stream's buffer until flush()/close(), or until the C library    *)
(* spills the buffer on its own.  A killed process loses the buffers.      *)
(*                                                                         *)
(* Bytes are grouped into the units the code writes with one call: the    *)
(* 40 header bytes of P, one sample, one moov box, the 36 header bytes of *)
(* the journal, one 40-byte FrameInfo record.                              *)
(***************************************************************************)
EXTENDS Integers, Sequences, FiniteSets, TLC

(***************************************************************************)
(* Bounds of the model.                                                    *)
(***************************************************************************)
MaxSessions == 1      \* start() calls in one behaviour
MaxWrites   == 2      \* write calls on an open session in one behaviour
MaxSets     == 1      \* setH264Config calls in one behaviour
MaxFaults   == 1      \* I/O operations the file system refuses in one behaviour
MaxCrashes  == 1      \* process kills in one behaviour
MaxRecovers == 2      \* recover() calls in one behaviour
MaxRestarts == 1      \* start() calls on a path that was used before
MaxMoreSets == 1      \* setH264Config calls after the first one
MaxInterleaved == 5   \* write calls of a session of interleaved tracks

(***************************************************************************)
(* Program constants.                                                      *)
(***************************************************************************)
MdatStart         == 40           \* ftyp (32) + mdat header (8)
MdatSizeFieldPos  == 32           \* offset of the mdat size field in P
MvhdSize          == 108
TkhdSize          == 92
MdhdSize          == 32
HdlrSize          == 68
VmhdSize          == 20
SmhdSize          == 16
StscSize          == 28
AudioDefaultDuration == 1024

NoBytes == <<>>

(***************************************************************************)
(* Inputs.                                                                 *)
(***************************************************************************)
\* parameter sets as byte strings (first byte: NAL header, 0x67 / 0x68)
SpsA == <<103, 66, 0, 30>>
PpsA == <<104, 206>>
SpsB == <<103, 100, 0, 31>>
PpsB == <<104, 238>>
SpsC == <<103, 77, 0, 40>>
PpsC == <<104, 235>>

\* RecorderConfig as default-constructed
DefaultConfig ==
    [video_timescale |-> 30000, audio_timescale |-> 48000,
     audio_sample_rate |-> 48000, audio_channels |-> 2,
     flush_interval_ms |-> 500, flush_frame_count |-> 1000,
     video_width |-> 640, video_height |-> 480]

\* the configuration the caller passes to start(): every field differs from
\* the default, and the frame-count trigger fires on the second frame
SessionConfig ==
    [video_timescale |-> 90000, audio_timescale |-> 44100,
     audio_sample_rate |-> 44100, audio_channels |-> 1,
     flush_interval_ms |-> 100, flush_frame_count |-> 2,
     video_width |-> 320, video_height |-> 240]

Configs == {SessionConfig}

\* sample lengths in bytes, as <<length \div 2^30, length % 2^30>>
SizeKey == <<0, 30>>
SizeDelta == <<0, 20>>
SizeAudio == <<0, 7>>
\* 2^32 - 24: a sample after this one has an offset beyond the 32-bit chunk
\* offsets, and 20 more bytes take the mdat box beyond a 32-bit box size
SizeHuge == <<3, 2^30 - 24>>

\* what the caller passes to writeVideoFrame: the sample (its length and the
\* parameter sets it carries in band) and the keyframe flag
VideoInputs ==
    { [size |-> SizeKey, sps |-> SpsB, pps |-> PpsB, key |-> TRUE],
      [size |-> SizeDelta, sps |-> NoBytes, pps |-> NoBytes, key |-> FALSE],
      [size |-> SizeHuge, sps |-> NoBytes, pps |-> NoBytes, key |-> TRUE] }

\* sample lengths passed to writeAudioFrame
AudioSizes == {SizeAudio}

\* the samples of an interleaved session: 500-byte video, 200-byte audio
SizeV500 == <<0, 500>>
SizeA200 == <<0, 200>>
InterleavedVideoInputs ==
    { [size |-> SizeV500, sps |-> NoBytes, pps |-> NoBytes, key |-> TRUE] }
InterleavedAudioSizes == {SizeA200}

\* a call with an empty buffer: size 0
EmptyVideoInput == [size |-> <<0, 0>>, sps |-> NoBytes, pps |-> NoBytes, key |-> TRUE]
VideoInputsWithEmpty == VideoInputs \cup {EmptyVideoInput}
AudioSizesWithEmpty == AudioSizes \cup {<<0, 0>>}

\* presentation time of the n-th sample (n from 0) of a track
PtsOf(n) == n * 1000

(***************************************************************************)
(* Arithmetic helpers.                                                     *)
(***************************************************************************)
Last(s) == s[Len(s)]

\* Byte counts (sample sizes, offsets, file sizes) are uint32_t and uint64_t
\* values that go beyond what one integer of the model checker holds.  A byte
\* count c is held exactly, as the pair <<c \div 2^30, c % 2^30>>.
Limb == 2^30

\* the byte count n, for 0 <= n < 2^30
W(n) == <<0, n>>

Carry(hi, lo) == <<hi + lo \div Limb, lo % Limb>>

WAdd(a, b) == Carry(a[1] + b[1], a[2] + b[2])

WLe(a, b) == a[1] < b[1] \/ (a[1] = b[1] /\ a[2] <= b[2])
WLt(a, b) == ~WLe(b, a)

\* a - b, for b <= a
WSub(a, b) ==
    IF a[2] >= b[2] THEN <<a[1] - b[1], a[2] - b[2]>>
    ELSE <<a[1] - b[1] - 1, a[2] + (Limb - b[2])>>

\* 0xFFFFFFFF
U32Max == <<3, Limb - 1>>

\* the test  v > 0xFFFFFFFFULL  on a 64-bit byte count, negated
FitsU32(v) == WLe(v, U32Max)

\* the conversion of a 64-bit byte count to uint32_t
TruncU32(v) == <<v[1] % 4, v[2]>>

\* the conversion to uint32_t of a duration or a box size; these are below
\* 2^31 in this model and held as integers
ToU32(v) == v

RECURSIVE SumSizes(_)
SumSizes(s) == IF s = <<>> THEN W(0) ELSE WAdd(s[1].size, SumSizes(Tail(s)))

(***************************************************************************)
(* MoovBuilder                                                             *)
(***************************************************************************)
\* buildStsd strips an Annex-B start code from a parameter set
StripStartCode(b) ==
    IF Len(b) >= 4 /\ b[1] = 0 /\ b[2] = 0 /\ b[3] = 0 /\ b[4] = 1
    THEN SubSeq(b, 5, Len(b))
    ELSE IF Len(b) >= 3 /\ b[1] = 0 /\ b[2] = 0 /\ b[3] = 1
         THEN SubSeq(b, 4, Len(b))
         ELSE b

FallbackSps == <<66, 0, 30, 225, 0, 0, 0>>
FallbackPps == <<225, 0>>

\* number of bytes writeDescriptorLength emits
DescriptorLengthBytes(length) ==
    LET v == length % 268435456
    IN  IF v >= 2097152 THEN 4
        ELSE IF v >= 16384 THEN 3
        ELSE IF v >= 128 THEN 2
        ELSE 1

\* the parameter set buildStsd puts into avcC: the caller's, without its
\* start code, or the built-in one
ParamSetOrFallback(b, fallback) ==
    IF Len(b) > 0 THEN StripStartCode(b) ELSE fallback

\* the avc1 sample entry: avcC holds profile (byte 1 of the SPS) and level
\* (byte 3), the SPS and the PPS; avcC is 19 bytes plus the two sets, avc1 86
\* bytes plus avcC, stsd 16 bytes plus the entry
AvcSampleEntry(sps_data, pps_data) ==
    [sps |-> sps_data, pps |-> pps_data,
     profile |-> IF Len(sps_data) >= 4 THEN sps_data[2] ELSE 66,
     level   |-> IF Len(sps_data) >= 4 THEN sps_data[4] ELSE 31,
     size |-> 16 + 86 + 19 + Len(sps_data) + Len(pps_data)]

\* the esds descriptors of the mp4a sample entry, sizes in bytes
DecoderConfigSize == 13 + 1 + DescriptorLengthBytes(2) + 2
SlConfigSize == 1 + DescriptorLengthBytes(1) + 1
EsDescriptorSize ==
    3 + (1 + DescriptorLengthBytes(DecoderConfigSize) + DecoderConfigSize) + SlConfigSize
EsdsPayloadSize == 4 + 1 + DescriptorLengthBytes(EsDescriptorSize) + EsDescriptorSize
Mp4aSampleEntry ==
    [sps |-> NoBytes, pps |-> NoBytes, profile |-> 0, level |-> 0,
     size |-> 16 + 36 + 8 + EsdsPayloadSize]

\* the avcC content and the size of the stsd box
BuildStsd(codec, sps, pps) ==
    IF codec = "avc1"
    THEN AvcSampleEntry(ParamSetOrFallback(sps, FallbackSps),
                        ParamSetOrFallback(pps, FallbackPps))
    ELSE Mp4aSampleEntry

\* duration of sample i: the distance to the next sample, the default for the
\* last one
SttsDuration(frames, i, dflt) ==
    IF i + 1 <= Len(frames) THEN ToU32(frames[i + 1].pts - frames[i].pts) ELSE dflt

\* run-length encoding of the sample durations, as buildStts builds it
RECURSIVE SttsRuns(_, _, _, _, _)
SttsRuns(frames, i, dflt, cur, acc) ==
    IF i > Len(frames)
    THEN IF cur[1] > 0 THEN Append(acc, cur) ELSE acc
    ELSE IF SttsDuration(frames, i, dflt) = cur[2] \/ cur[1] = 0
         THEN SttsRuns(frames, i + 1, dflt,
                       <<cur[1] + 1, SttsDuration(frames, i, dflt)>>, acc)
         ELSE SttsRuns(frames, i + 1, dflt,
                       <<1, SttsDuration(frames, i, dflt)>>, Append(acc, cur))

BuildStts(frames, default_duration) ==
    IF Len(frames) = 0 THEN [ok |-> FALSE, entries |-> <<>>]
    ELSE [ok |-> TRUE,
          entries |-> SttsRuns(frames, 1,
                               IF Len(frames) >= 2
                               THEN ToU32(frames[Len(frames)].pts - frames[Len(frames) - 1].pts)
                               ELSE default_duration,
                               <<0, 0>>, <<>>)]

RECURSIVE KeyframeIndices(_, _)
KeyframeIndices(frames, i) ==
    IF i > Len(frames) THEN <<>>
    ELSE (IF frames[i].is_keyframe # 0 THEN <<i>> ELSE <<>>)
         \o KeyframeIndices(frames, i + 1)

BuildStss(frames) == KeyframeIndices(frames, 1)

BuildStsz(frames) ==
    [ok |-> Len(frames) > 0,
     entries |-> [i \in 1..Len(frames) |-> frames[i].size]]

\* variant: the chunk offsets are not tested against the 32-bit limit
BuildStcoUnchecked(frames, mdat_start) ==
    [ok |-> Len(frames) > 0,
     entries |-> [i \in 1..Len(frames) |-> TruncU32(WAdd(W(mdat_start), frames[i].offset))]]

BuildStco(frames, mdat_start) ==
    [ok |-> Len(frames) > 0
            /\ \A i \in 1..Len(frames) : FitsU32(WAdd(W(mdat_start), frames[i].offset)),
     entries |-> [i \in 1..Len(frames) |-> WAdd(W(mdat_start), frames[i].offset)]]

NoTrak == [present |-> FALSE]

\* default duration buildTrak hands to buildStts
SttsDefaultDuration(codec, timescale) ==
    IF codec = "mp4a" THEN AudioDefaultDuration
    ELSE IF timescale >= 30 THEN timescale \div 30 ELSE 1

\* size of a trak box: tkhd, then mdia = mdhd, hdlr, minf = vmhd/smhd, dinf
\* (36), stbl = stsd, stts, stss (video), stsz, stco, stsc
TrakSize(codec, samples, stsd_size, stts_entries, stss_entries) ==
    8 + TkhdSize
    + (8 + MdhdSize + HdlrSize
       + (8 + (IF codec = "avc1" THEN VmhdSize ELSE SmhdSize) + 36
          + (8 + stsd_size + (16 + 8 * stts_entries)
             + (IF codec = "avc1" THEN 16 + 4 * stss_entries ELSE 0)
             + (20 + 4 * samples) + (16 + 4 * samples) + StscSize)))

\* the trak box assembled from its tables
TrakOf(frames, track_id, timescale, codec, stsd, stts, stss, stsz, stco) ==
    [ok |-> stts.ok /\ stsz.ok /\ stco.ok,
     trak |-> [present |-> TRUE, track_id |-> track_id, codec |-> codec,
               tkhd_duration |-> ToU32((Last(frames).pts * 1000) \div timescale),
               mdhd_timescale |-> timescale,
               mdhd_duration |-> ToU32(Last(frames).pts),
               avcC |-> [sps |-> stsd.sps, pps |-> stsd.pps,
                         profile |-> stsd.profile, level |-> stsd.level],
               stts |-> stts.entries, stss |-> stss,
               stsz |-> stsz.entries, stco |-> stco.entries,
               size |-> TrakSize(codec, Len(frames), stsd.size,
                                 Len(stts.entries), Len(stss))]]

BuildTrak(frames, track_id, timescale, codec, sps, pps, mdat_start) ==
    TrakOf(frames, track_id, timescale, codec,
           BuildStsd(codec, sps, pps),
           BuildStts(frames, SttsDefaultDuration(codec, timescale)),
           BuildStss(frames), BuildStsz(frames), BuildStco(frames, mdat_start))

TrakBytes(trak) == IF trak.present THEN trak.size ELSE 0

\* the moov box assembled from mvhd and the traks that were built
MoovOf(video_duration, v, a) ==
    [ok |-> v.ok /\ a.ok,
     moov |-> [mvhd_duration |-> video_duration,
               video |-> v.trak, audio |-> a.trak,
               size |-> ToU32(8 + MvhdSize + TrakBytes(v.trak) + TrakBytes(a.trak))]]

BuildMoov(video_frames, audio_frames, cfg, sps, pps, mdat_start) ==
    MoovOf(IF Len(video_frames) > 0
           THEN ToU32((Last(video_frames).pts * 1000) \div cfg.video_timescale)
           ELSE 0,
           IF Len(video_frames) > 0
           THEN BuildTrak(video_frames, 1, cfg.video_timescale, "avc1", sps, pps, mdat_start)
           ELSE [ok |-> TRUE, trak |-> NoTrak],
           IF Len(audio_frames) > 0
           THEN BuildTrak(audio_frames, 2, cfg.audio_timescale, "mp4a", NoBytes, NoBytes,
                          mdat_start)
           ELSE [ok |-> TRUE, trak |-> NoTrak])

(***************************************************************************)
(* MoovBuilder, box by box: for every box the size the code declares in    *)
(* its header and the bytes the code emits for it (8 header bytes, the     *)
(* fields written one by one, then the child boxes).                       *)
(***************************************************************************)
\* bytes appended by writeUint8, writeUint16BE, writeUint32BE
U8  == 1
U16 == 2
U32 == 4

\* writeAtomHeader: the size and the four characters of the type
AtomHeader == U32 + 4 * U8

RECURSIVE BoxBytes(_), KidsBytes(_)
\* the number of bytes emitted for box b
BoxBytes(b) == b.header + b.fields + KidsBytes(b.kids)
KidsBytes(kids) ==
    IF kids = <<>> THEN 0 ELSE BoxBytes(kids[1]) + KidsBytes(Tail(kids))

\* a box whose size is written as a number worked out by hand
Sized(type, declared, fields, kids) ==
    [type |-> type, declared |-> declared, header |-> AtomHeader,
     fields |-> fields, kids |-> kids]

\* a box whose size is taken from the bytes assembled for it: 8 + data.size()
Wrapped(type, fields, kids) ==
    Sized(type, ToU32(8 + fields + KidsBytes(kids)), fields, kids)

MvhdBox ==
    Sized("mvhd", MvhdSize,
          5 * U32 + U32 + U16 + U16 + 8 * U8 + 9 * U32 + 6 * U32 + U32, <<>>)

TkhdBox ==
    Sized("tkhd", TkhdSize,
          5 * U32 + U32 + 2 * U32 + 2 * U16 + U16 + U16 + 9 * U32 + 2 * U32, <<>>)

MdhdBox == Sized("mdhd", MdhdSize, 5 * U32 + 2 * U16, <<>>)

HdlrBox == Sized("hdlr", HdlrSize, 2 * U32 + 4 * U8 + 12 * U32, <<>>)

VmhdBox == Sized("vmhd", VmhdSize, U32 + U16 + 3 * U16, <<>>)
SmhdBox == Sized("smhd", SmhdSize, U32 + U16 + U16, <<>>)

\* the url box is written into dref field by field, its size as the number 12
UrlBox  == [type |-> "url ", declared |-> 12, header |-> U32 + 4 * U8,
            fields |-> U32, kids |-> <<>>]
DrefBox == Wrapped("dref", 2 * U32, <<UrlBox>>)
DinfBox == Wrapped("dinf", 0, <<DrefBox>>)

AvcCBox(sps_data, pps_data) ==
    [type |-> "avcC",
     declared |-> ToU32(8 + 1 + 1 + 1 + 1 + 1 + 1 + 2 + Len(sps_data) + 1 + 2 + Len(pps_data)),
     header |-> U32 + 4 * U8,
     fields |-> 5 * U8 + U8 + U16 + Len(sps_data) * U8 + U8 + U16 + Len(pps_data) * U8,
     kids |-> <<>>]

\* avc1_size is the sum written in the code plus avcc_size
Avc1Box(avcC) ==
    [type |-> "avc1",
     declared |-> ToU32(4 + 4 + 6 + 2 + 2 + 2 + 4 + 4 + 4 + 2 + 2 + 4 + 4 + 4 + 2 + 32 + 2 + 2
                        + avcC.declared),
     header |-> U32 + 4 * U8,
     fields |-> 6 * U8 + U16 + 2 * U16 + 3 * U32 + 2 * U16 + 2 * U32 + U32 + U16
                + 32 * U8 + 2 * U16,
     kids |-> <<avcC>>]

EsdsBox == Wrapped("esds", EsdsPayloadSize, <<>>)

Mp4aBox ==
    [type |-> "mp4a",
     declared |-> ToU32(36 + BoxBytes(EsdsBox)),
     header |-> U32 + 4 * U8,
     fields |-> 6 * U8 + U16 + 2 * U16 + U32 + 4 * U16 + U32,
     kids |-> <<EsdsBox>>]

StsdBox(codec, sps, pps) ==
    Wrapped("stsd", 2 * U32,
            IF codec = "avc1"
            THEN <<Avc1Box(AvcCBox(ParamSetOrFallback(sps, FallbackSps),
                                   ParamSetOrFallback(pps, FallbackPps)))>>
            ELSE <<Mp4aBox>>)

\* stts with its entries
SttsBox(entries) ==
    Sized("stts", ToU32(8 + 8 + Len(entries) * 8), 2 * U32 + Len(entries) * (2 * U32), <<>>)

\* stss with the indices of the key frames
StssBox(indices) ==
    Sized("stss", ToU32(8 + 8 + Len(indices) * 4), 2 * U32 + Len(indices) * U32, <<>>)

\* variant: the sample-size field of stsz is left out of the declared size
StszBoxShort(frames) ==
    Sized("stsz", ToU32(8 + 8 + Len(frames) * 4), 3 * U32 + Len(frames) * U32, <<>>)

StszBox(frames) ==
    Sized("stsz", ToU32(8 + 8 + 4 + Len(frames) * 4), 3 * U32 + Len(frames) * U32, <<>>)

StcoBox(frames) ==
    Sized("stco", ToU32(8 + 8 + Len(frames) * 4), 2 * U32 + Len(frames) * U32, <<>>)

StscBox == Sized("stsc", 8 + 8 + 12, 2 * U32 + 3 * U32, <<>>)

StblBox(frames, timescale, codec, sps, pps) ==
    Wrapped("stbl", 0,
            <<StsdBox(codec, sps, pps),
              SttsBox(BuildStts(frames,
                                IF codec = "mp4a" THEN AudioDefaultDuration
                                ELSE IF timescale >= 30 THEN timescale \div 30 ELSE 1).entries)>>
            \o (IF codec = "avc1" THEN <<StssBox(BuildStss(frames))>> ELSE <<>>)
            \o <<StszBox(frames), StcoBox(frames), StscBox>>)

MinfBox(frames, timescale, codec, sps, pps) ==
    Wrapped("minf", 0,
            <<IF codec = "avc1" THEN VmhdBox ELSE SmhdBox, DinfBox,
              StblBox(frames, timescale, codec, sps, pps)>>)

MdiaBox(frames, timescale, codec, sps, pps) ==
    Wrapped("mdia", 0, <<MdhdBox, HdlrBox, MinfBox(frames, timescale, codec, sps, pps)>>)

TrakBox(frames, timescale, codec, sps, pps) ==
    Wrapped("trak", 0, <<TkhdBox, MdiaBox(frames, timescale, codec, sps, pps)>>)

\* the moov that buildMoov returns, as the tree of its boxes
MoovTree(video_frames, audio_frames, cfg, sps, pps) ==
    Wrapped("moov", 0,
            <<MvhdBox>>
            \o (IF Len(video_frames) > 0
                THEN <<TrakBox(video_frames, cfg.video_timescale, "avc1", sps, pps)>>
                ELSE <<>>)
            \o (IF Len(audio_frames) > 0
                THEN <<TrakBox(audio_frames, cfg.audio_timescale, "mp4a", NoBytes, NoBytes)>>
                ELSE <<>>))

(***************************************************************************)
(* Files and stdio streams                                                 *)
(***************************************************************************)
\* the three files as the operating system sees them
\* synced: what fsync has made durable: -1 nothing, k >= 0 the header and the
\* first k samples of P (records of P.idx)
NoMp4  == [exists |-> FALSE, hdr |-> FALSE, sizeField |-> W(0), body |-> <<>>,
           synced |-> -1]
\* tail: the bytes of an incomplete FrameInfo behind the last whole record
NoIdx  == [exists |-> FALSE, hdr |-> FALSE, cfg |-> DefaultConfig, recs |-> <<>>,
           tail |-> 0, synced |-> -1]
NoLock == [exists |-> FALSE, len |-> 0]

\* fopen(path, "wb") creates the file or truncates it
NewMp4  == [NoMp4 EXCEPT !.exists = TRUE]
NewIdx  == [NoIdx EXCEPT !.exists = TRUE]
NewLock == [NoLock EXCEPT !.exists = TRUE]

\* a stream: the bytes written and not yet handed to the operating system.
\* detached: the file was unlinked while the stream was open.
Closed == [open |-> FALSE, buf |-> <<>>, detached |-> FALSE]
Opened == [open |-> TRUE, buf |-> <<>>, detached |-> FALSE]

Mp4Header == [k |-> "hdr", size |-> W(MdatStart)]
Sample(in) == [k |-> "sample", size |-> in.size, sps |-> in.sps, pps |-> in.pps]
Partial(n) == [k |-> "partial", size |-> n]
MoovBox(m) == [k |-> "moov", size |-> W(m.size), moov |-> m]
IdxHeader(cfg) == [k |-> "hdr", cfg |-> cfg]
IdxRecord(frame) == [k |-> "rec", frame |-> frame]

IsHdr(item) == item.k = "hdr"
NotHdr(item) == item.k # "hdr"

\* the operating system receives the buffered bytes of a stream on P
Mp4Receive(file, buf) ==
    [file EXCEPT !.hdr = file.hdr \/ SelectSeq(buf, IsHdr) # <<>>,
                 !.body = file.body \o SelectSeq(buf, NotHdr)]

\* P.idx after it received a header h (if any) and the records r
IdxReceived(file, h, r) ==
    [file EXCEPT !.hdr = file.hdr \/ h # <<>>,
                 !.cfg = IF h # <<>> THEN h[1].cfg ELSE file.cfg,
                 !.recs = file.recs \o [i \in 1..Len(r) |-> r[i].frame]]

\* the operating system receives the buffered bytes of a stream on P.idx
IdxReceive(file, buf) ==
    IdxReceived(file, SelectSeq(buf, IsHdr), SelectSeq(buf, NotHdr))

\* StdioFile::flush (fflush), also done by fclose
FlushMp4(h, file) == IF h.open /\ ~h.detached THEN Mp4Receive(file, h.buf) ELSE file
FlushIdx(h, file) == IF h.open /\ ~h.detached THEN IdxReceive(file, h.buf) ELSE file
Flushed(h) == [h EXCEPT !.buf = <<>>]

\* StdioFile::sync (fsync): what the operating system has of the file becomes
\* durable
SyncMp4(h, file) ==
    IF h.open /\ ~h.detached /\ file.hdr
    THEN [file EXCEPT !.synced = Len(file.body)] ELSE file
SyncIdx(h, file) ==
    IF h.open /\ ~h.detached /\ file.hdr
    THEN [file EXCEPT !.synced = Len(file.recs)] ELSE file

\* StdioFileOps::getFileSize on P
Mp4FileSize(file) == WAdd(W(IF file.hdr THEN MdatStart ELSE 0), SumSizes(file.body))

(***************************************************************************)
(* Mp4Recorder                                                             *)
(***************************************************************************)
NewRecorder ==
    [recording |-> FALSE, frame_count |-> 0, mdat_start |-> 0, mdat_size |-> W(0),
     video_frames |-> <<>>, audio_frames |-> <<>>,
     h264_sps |-> NoBytes, h264_pps |-> NoBytes,
     frames_since_flush |-> 0, config |-> DefaultConfig,
     mp4_file |-> Closed, idx_file |-> Closed, lock_file |-> Closed]

VARIABLES
    fs,        \* the files P, P.idx and P.lock as the operating system sees them
    rec,       \* the Mp4Recorder object
    lastOp,    \* the last call made and what it returned
    g,         \* history of the session on P (what the caller has observed)
    n          \* counters that bound the behaviour

vars == <<fs, rec, lastOp, g, n>>

\* fail: the operation the file system refused during the call ("none": no
\* operation), fault: it refused one
Op(op, ret, fail) == [op |-> op, ret |-> ret, fault |-> fail # "none", fail |-> fail]

NoSession ==
    [stage |-> "none",        \* none, open, stopped, stopfailed, crashed, recovered
     calls |-> [v |-> 0, a |-> 0],  \* write calls made per track
     okFrames |-> <<>>,       \* FrameInfo of every write that returned true
     okData |-> <<>>,         \* position in P at which each of them was written
     flushed |-> 0,           \* Len(okFrames) at the last completed flush
     failedWrites |-> 0,      \* write calls that returned false
     pos |-> W(0),            \* payload bytes handed to the stream of P so far
     sps |-> NoBytes, pps |-> NoBytes,  \* parameter sets held at the crash / stop
     cleanMp4 |-> NoMp4,      \* P as a clean stop() would have left it at the crash
     cleanOk |-> FALSE,
     resumeMp4 |-> NoMp4]     \* P as the recover that was killed would have left it

Init ==
    /\ fs = [mp4 |-> NoMp4, idx |-> NoIdx, lock |-> NoLock]
    /\ rec = NewRecorder
    /\ lastOp = Op("init", TRUE, "none")
    /\ g = NoSession
    /\ n = [sessions |-> 0, writes |-> 0, sets |-> 0, faults |-> 0,
            crashes |-> 0, recovers |-> 0]

Fault(fail) == IF fail = "none" THEN 0 ELSE 1
FaultAllowed(fail) == fail = "none" \/ n.faults < MaxFaults

NoHandles(r) == ~r.mp4_file.open /\ ~r.idx_file.open /\ ~r.lock_file.open

(***************************************************************************)
(* hasIncompleteRecording                                                  *)
(***************************************************************************)
\* variant: only the journal is looked for
HasIncompleteRecordingIdxOnly(f) == f.idx.exists

HasIncompleteRecording(f) == f.lock.exists /\ f.idx.exists

(***************************************************************************)
(* start / createFiles                                                     *)
(***************************************************************************)
StartFails == {"none", "open_mp4", "write_mp4", "open_idx", "write_idx", "open_lock"}

\* createFiles, last part: P.lock is created and "RECORDING" written to it
CreateFilesLock(r, f, fail) ==
    IF fail = "open_lock" THEN [ok |-> FALSE, rec |-> r, fs |-> f]
    ELSE [ok |-> TRUE,
          rec |-> [r EXCEPT !.lock_file = Opened],
          fs |-> [f EXCEPT !.lock = [exists |-> TRUE, len |-> 9]]]

\* createFiles, middle part: P.idx is created, magic and config are written
\* and the stream is flushed
CreateFilesIdx(r, f, fail) ==
    IF fail = "open_idx" THEN [ok |-> FALSE, rec |-> r, fs |-> f]
    ELSE IF fail = "write_idx"
         THEN [ok |-> FALSE,
               rec |-> [r EXCEPT !.idx_file = Opened],
               fs |-> [f EXCEPT !.idx = NewIdx]]
         ELSE CreateFilesLock([r EXCEPT !.idx_file = Opened],
                              [f EXCEPT !.idx = IdxReceive(NewIdx, <<IdxHeader(r.config)>>)],
                              fail)

\* createFiles, the file system refusing the operation named by fail: P is
\* created and ftyp and the mdat header go into its stream
CreateFiles(r, f, fail) ==
    IF fail = "open_mp4" THEN [ok |-> FALSE, rec |-> r, fs |-> f]
    ELSE IF fail = "write_mp4"
         THEN [ok |-> FALSE,
               rec |-> [r EXCEPT !.mp4_file = Opened],
               fs |-> [f EXCEPT !.mp4 = NewMp4]]
         ELSE CreateFilesIdx([r EXCEPT !.mp4_file = [Opened EXCEPT !.buf = <<Mp4Header>>],
                                       !.mdat_start = MdatStart, !.mdat_size = W(0)],
                             [f EXCEPT !.mp4 = NewMp4],
                             fail)

\* start after createFiles returned c
StartCreated(c) ==
    IF ~c.ok THEN c
    ELSE [c EXCEPT !.rec.recording = TRUE, !.rec.frame_count = 0,
                   !.rec.frames_since_flush = 0]

\* variant: the configuration is stored before the state is looked at
StartCallConfigFirst(r, f, config, fail) ==
    IF r.recording THEN [ok |-> FALSE, rec |-> [r EXCEPT !.config = config], fs |-> f]
    ELSE StartCreated(CreateFiles([r EXCEPT !.config = config], f, fail))

StartCall(r, f, config, fail) ==
    IF r.recording THEN [ok |-> FALSE, rec |-> r, fs |-> f]
    ELSE StartCreated(CreateFiles([r EXCEPT !.config = config], f, fail))

\* start() is called and fewer than limit sessions were started before
StartWithin(limit, config, fail) ==
    /\ n.sessions < limit
    /\ FaultAllowed(fail)
    /\ ~rec.recording
    /\ NoHandles(rec)     \* the caller starts on a recorder that holds no file
    /\ \E s \in {StartCall(rec, fs, config, fail)} :
           /\ rec' = s.rec
           /\ fs' = s.fs
           /\ lastOp' = Op("start", s.ok, fail)
           /\ g' = IF s.ok THEN [NoSession EXCEPT !.stage = "open",
                                                 !.sps = rec.h264_sps, !.pps = rec.h264_pps]
                   ELSE [NoSession EXCEPT !.stage = "startfailed"]
    /\ n' = [n EXCEPT !.sessions = @ + 1, !.faults = @ + Fault(fail)]

Start(config, fail) == StartWithin(MaxSessions, config, fail)

\* start() is called on the path of an earlier session
Restart(config, fail) ==
    /\ n.sessions >= 1
    /\ StartWithin(MaxSessions + MaxRestarts, config, fail)

\* start() is called on a recorder that is recording
StartWhileRecording(config) ==
    /\ rec.recording
    /\ \E s \in {StartCall(rec, fs, config, "none")} :
           /\ rec' = s.rec
           /\ fs' = s.fs
           /\ lastOp' = Op("start", s.ok, "none")
    /\ UNCHANGED <<g, n>>

(***************************************************************************)
(* setH264Config                                                           *)
(***************************************************************************)
ParamSetInputs ==
    { [sps |-> SpsA, pps |-> PpsA],
      [sps |-> NoBytes, pps |-> PpsA] }

\* the inputs of a second call: the same again, and other parameter sets
MoreParamSetInputs ==
    ParamSetInputs \cup { [sps |-> SpsC, pps |-> PpsC], [sps |-> SpsC, pps |-> NoBytes] }

\* variant: parameter sets that are stored already are kept
SetH264ConfigCallFirstWins(r, sps, pps) ==
    IF Len(sps) = 0 \/ Len(pps) = 0 THEN [ok |-> FALSE, rec |-> r]
    ELSE IF Len(r.h264_sps) > 0 THEN [ok |-> TRUE, rec |-> r]
    ELSE [ok |-> TRUE, rec |-> [r EXCEPT !.h264_sps = sps, !.h264_pps = pps]]

\* a null pointer or a size of 0 is an empty byte string here
SetH264ConfigCall(r, sps, pps) ==
    IF Len(sps) = 0 \/ Len(pps) = 0 THEN [ok |-> FALSE, rec |-> r]
    ELSE [ok |-> TRUE, rec |-> [r EXCEPT !.h264_sps = sps, !.h264_pps = pps]]

\* the call as the caller sees it: what was passed and what came back
SetOp(ret, in) ==
    [op |-> "setH264Config", ret |-> ret, fault |-> FALSE, fail |-> "none",
     sps |-> in.sps, pps |-> in.pps]

\* setH264Config is called and fewer than limit calls were made before
SetH264ConfigWithin(limit, in) ==
    /\ n.sets < limit
    /\ g.stage \in {"none", "open"}   \* before or during the session
    /\ \E s \in {SetH264ConfigCall(rec, in.sps, in.pps)} :
           /\ rec' = s.rec
           /\ lastOp' = SetOp(s.ok, in)
           /\ g' = [g EXCEPT !.sps = s.rec.h264_sps, !.pps = s.rec.h264_pps]
    /\ n' = [n EXCEPT !.sets = @ + 1]
    /\ UNCHANGED fs

SetH264Config(in) == SetH264ConfigWithin(MaxSets, in)

\* setH264Config is called once more
SetH264ConfigAgain(in) ==
    /\ n.sets >= 1
    /\ SetH264ConfigWithin(MaxSets + MaxMoreSets, in)

(***************************************************************************)
(* writeVideoFrame / writeAudioFrame                                       *)
(***************************************************************************)
WriteFails == {"none", "mdat_write", "idx_write",
               "flush_mp4", "flush_idx", "sync_mp4", "sync_idx"}
FlushFails == {"flush_mp4", "flush_idx", "sync_mp4", "sync_idx"}

\* bytes of the sample that reach the stream when write() comes back short
PartialCounts(size) ==
    IF size = W(0) THEN {} ELSE {W(0), WSub(size, W(1))}

PartInputs ==
    {W(0)} \cup {WSub(in.size, W(1)) : in \in VideoInputs}
           \cup {WSub(size, W(1)) : size \in AudioSizes}

\* StdioFile::write returns 0 for size 0, which equals the size asked for
WriteFrameToMdat(r, data, fail, part) ==
    IF fail = "mdat_write"
    THEN [ok |-> FALSE,
          rec |-> IF part # W(0)
                  THEN [r EXCEPT !.mp4_file.buf = Append(@, Partial(part))]
                  ELSE r]
    ELSE [ok |-> TRUE,
          rec |-> IF data.size # W(0)
                  THEN [r EXCEPT !.mp4_file.buf = Append(@, data)]
                  ELSE r]

\* variant: every frame is added to the video list
RememberFrameOneList(r, frame) ==
    [r EXCEPT !.video_frames = Append(@, frame)]

\* the frame is added to the list of its track
RememberFrame(r, frame) ==
    IF frame.track_id = 0 THEN [r EXCEPT !.video_frames = Append(@, frame)]
    ELSE IF frame.track_id = 1 THEN [r EXCEPT !.audio_frames = Append(@, frame)]
    ELSE r

LogFrameToIndex(r, frame, fail) ==
    IF ~r.idx_file.open \/ fail = "idx_write" THEN [ok |-> FALSE, rec |-> r]
    ELSE [ok |-> TRUE,
          rec |-> RememberFrame([r EXCEPT !.idx_file.buf = Append(@, IdxRecord(frame))],
                                frame)]

FlushTriggered(r, elapsed) ==
    elapsed \/ r.frames_since_flush >= r.config.flush_frame_count

\* variant: the journal is synced before P
FlushSyncJournalFirst(r, f, fail) ==
    IF fail = "sync_idx" THEN [ok |-> FALSE, done |-> FALSE, rec |-> r, fs |-> f]
    ELSE IF fail = "sync_mp4"
    THEN [ok |-> FALSE, done |-> FALSE, rec |-> r,
          fs |-> [f EXCEPT !.idx = SyncIdx(r.idx_file, f.idx)]]
    ELSE [ok |-> TRUE, done |-> TRUE,
          rec |-> [r EXCEPT !.frames_since_flush = 0],
          fs |-> [f EXCEPT !.mp4 = SyncMp4(r.mp4_file, f.mp4),
                           !.idx = SyncIdx(r.idx_file, f.idx)]]

\* flushIfNeeded, the two sync calls: P, then the journal
FlushSync(r, f, fail) ==
    IF fail = "sync_mp4" THEN [ok |-> FALSE, done |-> FALSE, rec |-> r, fs |-> f]
    ELSE IF fail = "sync_idx"
    THEN [ok |-> FALSE, done |-> FALSE, rec |-> r,
          fs |-> [f EXCEPT !.mp4 = SyncMp4(r.mp4_file, f.mp4)]]
    ELSE [ok |-> TRUE, done |-> TRUE,
          rec |-> [r EXCEPT !.frames_since_flush = 0],
          fs |-> [f EXCEPT !.mp4 = SyncMp4(r.mp4_file, f.mp4),
                           !.idx = SyncIdx(r.idx_file, f.idx)]]

\* flushIfNeeded, the flush of the journal stream and what follows
FlushJournal(r, f, fail) ==
    IF fail = "flush_idx" THEN [ok |-> FALSE, done |-> FALSE, rec |-> r, fs |-> f]
    ELSE FlushSync([r EXCEPT !.idx_file = Flushed(@)],
                   [f EXCEPT !.idx = FlushIdx(r.idx_file, f.idx)],
                   fail)

\* variant: the journal stream is not flushed
FlushIfNeededMp4Only(r, f, elapsed, fail) ==
    IF ~FlushTriggered(r, elapsed) THEN [ok |-> TRUE, done |-> FALSE, rec |-> r, fs |-> f]
    ELSE IF fail = "flush_mp4" THEN [ok |-> FALSE, done |-> FALSE, rec |-> r, fs |-> f]
    ELSE IF fail = "flush_idx"
         THEN [ok |-> FALSE, done |-> FALSE,
               rec |-> [r EXCEPT !.mp4_file = Flushed(@)],
               fs |-> [f EXCEPT !.mp4 = FlushMp4(r.mp4_file, f.mp4)]]
         ELSE FlushSync([r EXCEPT !.mp4_file = Flushed(@)],
                        [f EXCEPT !.mp4 = FlushMp4(r.mp4_file, f.mp4)],
                        fail)

\* flushIfNeeded: flush P, flush the journal, sync P, sync the journal
FlushIfNeeded(r, f, elapsed, fail) ==
    IF ~FlushTriggered(r, elapsed) THEN [ok |-> TRUE, done |-> FALSE, rec |-> r, fs |-> f]
    ELSE IF fail = "flush_mp4" THEN [ok |-> FALSE, done |-> FALSE, rec |-> r, fs |-> f]
    ELSE FlushJournal([r EXCEPT !.mp4_file = Flushed(@)],
                      [f EXCEPT !.mp4 = FlushMp4(r.mp4_file, f.mp4)],
                      fail)

FrameInfo(r, size, pts, key, track) ==
    [offset |-> r.mdat_size, size |-> size, pts |-> pts, dts |-> pts,
     is_keyframe |-> IF key THEN 1 ELSE 0, track_id |-> track]

\* variant: mdat_size is not advanced by the size of the sample
WriteFrameLoggedNoAdvance(l, f, size, elapsed, fail) ==
    IF ~l.ok THEN [ok |-> FALSE, done |-> FALSE, rec |-> l.rec, fs |-> f]
    ELSE FlushIfNeeded([l.rec EXCEPT !.frame_count = @ + 1,
                                     !.frames_since_flush = @ + 1],
                       f, elapsed, fail)

\* a write call after logFrameToIndex returned l: the counters, then the flush
WriteFrameLogged(l, f, size, elapsed, fail) ==
    IF ~l.ok THEN [ok |-> FALSE, done |-> FALSE, rec |-> l.rec, fs |-> f]
    ELSE FlushIfNeeded([l.rec EXCEPT !.mdat_size = WAdd(@, size),
                                     !.frame_count = @ + 1,
                                     !.frames_since_flush = @ + 1],
                       f, elapsed, fail)

\* variant: the frame is journaled whatever writeFrameToMdat returned
WriteFrameWrittenLogAnyway(w, f, frame, elapsed, fail) ==
    IF ~w.ok
    THEN [ok |-> FALSE, done |-> FALSE, rec |-> LogFrameToIndex(w.rec, frame, fail).rec, fs |-> f]
    ELSE WriteFrameLogged(LogFrameToIndex(w.rec, frame, fail), f, frame.size, elapsed, fail)

\* a write call after writeFrameToMdat returned w
WriteFrameWritten(w, f, frame, elapsed, fail) ==
    IF ~w.ok THEN [ok |-> FALSE, done |-> FALSE, rec |-> w.rec, fs |-> f]
    ELSE WriteFrameLogged(LogFrameToIndex(w.rec, frame, fail), f, frame.size, elapsed, fail)

\* the common body of writeVideoFrame (track 0) and writeAudioFrame (track 1)
WriteFrameCall(r, f, data, pts, key, track, elapsed, fail, part) ==
    IF ~r.recording THEN [ok |-> FALSE, done |-> FALSE, rec |-> r, fs |-> f]
    ELSE WriteFrameWritten(WriteFrameToMdat(r, data, fail, part), f,
                           FrameInfo(r, data.size, pts, key, track), elapsed, fail)

WriteVideoFrameCall(r, f, in, pts, elapsed, fail, part) ==
    WriteFrameCall(r, f, Sample(in), pts, in.key, 0, elapsed, fail, part)

WriteAudioFrameCall(r, f, size, pts, elapsed, fail, part) ==
    WriteFrameCall(r, f, Sample([size |-> size, sps |-> NoBytes, pps |-> NoBytes]),
                   pts, TRUE, 1, elapsed, fail, part)

\* bytes of the call's sample that went into the stream of P
BytesTaken(size, fail, part) == IF fail = "mdat_write" THEN part ELSE size

\* the caller's record of a write call: the result w of the call
NoteResult(h, w, frame, at) ==
    IF w.ok
    THEN [h EXCEPT !.okFrames = Append(@, frame), !.okData = Append(@, at)]
    ELSE [h EXCEPT !.failedWrites = @ + 1]

\* the caller's record of a write call: a flush was completed
NoteFlush(h, w) ==
    IF w.done THEN [h EXCEPT !.flushed = Len(h.okFrames)] ELSE h

\* the caller's record of a write call
NoteWrite(h, w, r, size, pts, key, track, fail, part) ==
    NoteFlush(NoteResult([h EXCEPT !.calls = IF track = 0 THEN [@ EXCEPT !.v = @ + 1]
                                             ELSE [@ EXCEPT !.a = @ + 1],
                                   !.pos = WAdd(@, BytesTaken(size, fail, part))],
                         w, FrameInfo(r, size, pts, key, track), h.pos),
              w)

WriteGuard(limit, size, elapsed, fail, part) ==
    /\ FaultAllowed(fail)
    /\ rec.recording
    /\ n.writes < limit
    /\ fail = "mdat_write" => part \in PartialCounts(size)
    /\ fail # "mdat_write" => part = W(0)
    /\ fail \in FlushFails =>
          FlushTriggered([rec EXCEPT !.frames_since_flush = @ + 1], elapsed)

\* writeVideoFrame is called and fewer than limit write calls were made before
WriteVideoFrameWithin(limit, in, elapsed, fail, part) ==
    /\ WriteGuard(limit, in.size, elapsed, fail, part)
    /\ \E pts \in {PtsOf(g.calls.v)} :
       \E w \in {WriteVideoFrameCall(rec, fs, in, pts, elapsed, fail, part)} :
           /\ rec' = w.rec
           /\ fs' = w.fs
           /\ lastOp' = Op("writeVideoFrame", w.ok, fail)
           /\ g' = NoteWrite(g, w, rec, in.size, pts, in.key, 0, fail, part)
    /\ n' = [n EXCEPT !.faults = @ + Fault(fail), !.writes = @ + 1]

WriteVideoFrame(in, elapsed, fail, part) ==
    WriteVideoFrameWithin(MaxWrites, in, elapsed, fail, part)

\* writeAudioFrame is called and fewer than limit write calls were made before
WriteAudioFrameWithin(limit, size, elapsed, fail, part) ==
    /\ WriteGuard(limit, size, elapsed, fail, part)
    /\ \E pts \in {PtsOf(g.calls.a)} :
       \E w \in {WriteAudioFrameCall(rec, fs, size, pts, elapsed, fail, part)} :
           /\ rec' = w.rec
           /\ fs' = w.fs
           /\ lastOp' = Op("writeAudioFrame", w.ok, fail)
           /\ g' = NoteWrite(g, w, rec, size, pts, TRUE, 1, fail, part)
    /\ n' = [n EXCEPT !.faults = @ + Fault(fail), !.writes = @ + 1]

WriteAudioFrame(size, elapsed, fail, part) ==
    WriteAudioFrameWithin(MaxWrites, size, elapsed, fail, part)

\* a write call is made on a recorder that is not recording
WriteWhileNotRecording(in, size) ==
    /\ ~rec.recording
    /\ \E w \in {WriteVideoFrameCall(rec, fs, in, PtsOf(0), FALSE, "none", W(0)),
                 WriteAudioFrameCall(rec, fs, size, PtsOf(0), FALSE, "none", W(0))} :
           /\ rec' = w.rec
           /\ fs' = w.fs
           /\ lastOp' = Op("writeFrame", w.ok, "none")
    /\ UNCHANGED <<g, n>>

IsWrite(o) == o.op \in {"writeVideoFrame", "writeAudioFrame"}

(***************************************************************************)
(* The C library empties a full stream buffer while a write is in          *)
(* progress; which write fills the buffer depends on the buffer size.     *)
(***************************************************************************)
SpillMp4 ==
    /\ IsWrite(lastOp) /\ rec.recording
    /\ rec.mp4_file.open /\ rec.mp4_file.buf # <<>>
    /\ fs' = [fs EXCEPT !.mp4 = FlushMp4(rec.mp4_file, fs.mp4)]
    /\ rec' = [rec EXCEPT !.mp4_file = Flushed(@)]
    /\ UNCHANGED <<lastOp, g, n>>

SpillIdx ==
    /\ IsWrite(lastOp) /\ rec.recording
    /\ rec.idx_file.open /\ rec.idx_file.buf # <<>>
    /\ fs' = [fs EXCEPT !.idx = FlushIdx(rec.idx_file, fs.idx)]
    /\ rec' = [rec EXCEPT !.idx_file = Flushed(@)]
    /\ UNCHANGED <<lastOp, g, n>>

(***************************************************************************)
(* MoovBuilder::writeMoovToFile: append the moov to P through a stream of  *)
(* its own, opened in mode "ab"                                            *)
(***************************************************************************)
MoovFails == {"moov_open", "moov_write"}

\* P with item appended (mode "ab" creates P when it is missing)
AppendToMp4(f, item) ==
    [f EXCEPT !.mp4.exists = TRUE, !.mp4.body = Append(@, item)]

WriteMoovToFile(f, moov, fail) ==
    IF fail = "moov_open" THEN [ok |-> FALSE, fs |-> f]
    ELSE IF fail = "moov_write"
         THEN [ok |-> FALSE, fs |-> AppendToMp4(f, Partial(W(moov.size - 1)))]
         ELSE [ok |-> TRUE, fs |-> AppendToMp4(f, MoovBox(moov))]

(***************************************************************************)
(* stop                                                                    *)
(***************************************************************************)
\* remove: std::remove of the sidecars is refused (the files stay)
StopFails == {"none", "remove"} \cup MoovFails

\* buildAndWriteMoov after buildMoov returned b
WriteBuiltMoov(f, b, fail) ==
    IF ~b.ok THEN [ok |-> FALSE, fs |-> f]
    ELSE WriteMoovToFile(f, b.moov, fail)

BuildAndWriteMoov(r, f, fail) ==
    WriteBuiltMoov(f,
                   BuildMoov(r.video_frames, r.audio_frames, r.config,
                             r.h264_sps, r.h264_pps, r.mdat_start),
                   fail)

\* cleanupFiles: the results of the two remove calls are not looked at
CleanupFiles(f, fail) ==
    IF fail = "remove" THEN f ELSE [f EXCEPT !.idx = NoIdx, !.lock = NoLock]

\* a stream whose file has been unlinked keeps writing to the unlinked file
Unlinked(h) == IF h.open THEN [h EXCEPT !.detached = TRUE] ELSE h

\* stop, first part: flush P, patch the mdat size field, flush, close P
PatchMdatSize(r, f) ==
    IF r.mp4_file.open
    THEN [f EXCEPT !.mp4 = [FlushMp4(r.mp4_file, f.mp4)
                              EXCEPT !.sizeField = TruncU32(WAdd(W(8), r.mdat_size))]]
    ELSE f

\* stop after buildAndWriteMoov returned m: close the journal and the lock,
\* then remove them
StopFinish(r, m, fail) ==
    IF ~m.ok THEN [ok |-> FALSE, rec |-> r, fs |-> m.fs]
    ELSE [ok |-> TRUE,
          rec |-> [r EXCEPT !.idx_file = Closed, !.lock_file = Closed],
          fs |-> CleanupFiles([m.fs EXCEPT !.idx = FlushIdx(r.idx_file, m.fs.idx)],
                              fail)]

\* stop once P is closed
StopMoov(r, f, fail) == StopFinish(r, BuildAndWriteMoov(r, f, fail), fail)

StopCall(r, f, fail) ==
    IF ~r.recording THEN [ok |-> FALSE, rec |-> r, fs |-> f]
    ELSE StopMoov([r EXCEPT !.recording = FALSE, !.mp4_file = Closed],
                  PatchMdatSize(r, f), fail)

Stop(fail) ==
    /\ FaultAllowed(fail)
    /\ rec.recording
    /\ \E s \in {StopCall(rec, fs, fail)} :
           /\ rec' = s.rec
           /\ fs' = s.fs
           /\ lastOp' = Op("stop", s.ok, fail)
           /\ g' = [g EXCEPT !.stage = IF s.ok THEN "stopped" ELSE "stopfailed"]
    /\ n' = [n EXCEPT !.faults = @ + Fault(fail)]

\* stop() is called on a recorder that is not recording
StopWhileNotRecording ==
    /\ ~rec.recording
    /\ \E s \in {StopCall(rec, fs, "none")} :
           /\ rec' = s.rec
           /\ fs' = s.fs
           /\ lastOp' = Op("stop", s.ok, "none")
    /\ UNCHANGED <<g, n>>

(***************************************************************************)
(* ~Mp4Recorder: stop() if recording, then the members close their files.  *)
(* The caller constructs a new recorder afterwards.                        *)
(***************************************************************************)
CloseAll(r, f) ==
    [f EXCEPT !.mp4 = FlushMp4(r.mp4_file, f.mp4),
              !.idx = FlushIdx(r.idx_file, f.idx)]

Destroy(fail) ==
    /\ FaultAllowed(fail)
    /\ ~rec.recording => fail = "none" /\ rec # NewRecorder
    /\ \E s \in {IF rec.recording THEN StopCall(rec, fs, fail)
                 ELSE [ok |-> TRUE, rec |-> rec, fs |-> fs]} :
           /\ fs' = CloseAll(s.rec, s.fs)
           /\ rec' = NewRecorder
           /\ lastOp' = Op("destroy", s.ok, fail)
           /\ g' = IF rec.recording THEN [g EXCEPT !.stage = "destroyed"] ELSE g
    /\ n' = [n EXCEPT !.faults = @ + Fault(fail)]

(***************************************************************************)
(* The process is killed: the stream buffers are lost, the files stay as   *)
(* the operating system has them.                                          *)
(***************************************************************************)
Crash ==
    /\ n.crashes < MaxCrashes
    /\ ~NoHandles(rec)
    /\ rec' = NewRecorder
    /\ lastOp' = Op("crash", TRUE, "none")
    /\ \E s \in {StopCall(rec, fs, "none")} :
          g' = IF rec.recording
               THEN [g EXCEPT !.stage = "crashed", !.cleanMp4 = s.fs.mp4, !.cleanOk = s.ok]
               ELSE g
    /\ n' = [n EXCEPT !.crashes = @ + 1]
    /\ UNCHANGED fs

\* the bytes the operating system may hold of a record when the process is
\* killed while the C library empties the stream buffer of P.idx
TornSizes == {1, 39}

\* P.idx after it received the first whole items of buf and tail bytes of the
\* item behind them
IdxReceiveTorn(file, buf, whole, tail) ==
    [IdxReceive(file, SubSeq(buf, 1, whole)) EXCEPT !.tail = tail]

\* the process is killed while the stream buffer of P.idx is being emptied:
\* a record reaches the file in part
CrashTorn(whole, tail) ==
    /\ n.crashes < MaxCrashes
    /\ rec.recording
    /\ rec.idx_file.open /\ ~rec.idx_file.detached
    /\ whole < Len(rec.idx_file.buf)
    /\ NotHdr(rec.idx_file.buf[whole + 1])
    /\ fs' = [fs EXCEPT !.idx = IdxReceiveTorn(fs.idx, rec.idx_file.buf, whole, tail)]
    /\ rec' = NewRecorder
    /\ lastOp' = Op("crash", TRUE, "none")
    /\ \E s \in {StopCall(rec, fs, "none")} :
          g' = [g EXCEPT !.stage = "crashed", !.cleanMp4 = s.fs.mp4, !.cleanOk = s.ok]
    /\ n' = [n EXCEPT !.crashes = @ + 1]

(***************************************************************************)
(* recover                                                                 *)
(***************************************************************************)
RecoverFails == {"none", "idx_open", "idx_read", "mp4_open", "size_write", "remove"}
                \cup MoovFails

IsVideo(fr) == fr.track_id = 0
IsAudio(fr) == fr.track_id = 1

\* the journal records split by track
FramesByTrack(recs) ==
    [video |-> SelectSeq(recs, IsVideo), audio |-> SelectSeq(recs, IsAudio)]

\* sizeof(FrameInfo) and the journal header (magic and RecorderConfig)
FrameInfoSize == 40
IdxHeaderSize == 36

\* the length of P.idx in bytes
IdxFileSize(idx) ==
    (IF idx.hdr THEN IdxHeaderSize ELSE 0) + Len(idx.recs) * FrameInfoSize + idx.tail

\* IndexFile::open: frame_count_
IndexFrameCount(idx) ==
    IF IdxFileSize(idx) > IdxHeaderSize
    THEN (IdxFileSize(idx) - IdxHeaderSize) \div FrameInfoSize
    ELSE 0

\* StdioFile::read of size bytes at position pos: the number of bytes read
BytesRead(idx, pos, size) ==
    IF pos >= IdxFileSize(idx) THEN 0
    ELSE IF IdxFileSize(idx) - pos < size THEN IdxFileSize(idx) - pos
    ELSE size

\* the FrameInfo whose bytes lie at pos .. pos + sizeof(FrameInfo) - 1
RecordAt(idx, pos) == idx.recs[(pos - IdxHeaderSize) \div FrameInfoSize + 1]

RECURSIVE ReadLoop(_, _, _)
\* variant: a short read discards the records read so far
ReadLoopStrict(idx, pos, frames) ==
    IF BytesRead(idx, pos, FrameInfoSize) = FrameInfoSize
    THEN ReadLoop(idx, pos + FrameInfoSize, Append(frames, RecordAt(idx, pos)))
    ELSE IF BytesRead(idx, pos, FrameInfoSize) > 0 THEN <<>>
    ELSE frames

\* the loop  while (read(&frame, sizeof(FrameInfo)) == sizeof(FrameInfo))
ReadLoop(idx, pos, frames) ==
    IF BytesRead(idx, pos, FrameInfoSize) = FrameInfoSize
    THEN ReadLoop(idx, pos + FrameInfoSize, Append(frames, RecordAt(idx, pos)))
    ELSE frames

\* variant: the read loop stops one record early
ReadAllFramesButLast(idx) ==
    FramesByTrack(SubSeq(idx.recs, 1, Len(idx.recs) - 1))

\* IndexFile::readAllFrames
ReadAllFrames(idx) == FramesByTrack(ReadLoop(idx, IdxHeaderSize, <<>>))

\* the sample that starts at payload offset off in P and is size bytes long,
\* if these bytes are one whole sample as it was written
RECURSIVE SampleAt(_, _, _)
SampleAt(body, off, size) ==
    IF body = <<>> THEN [found |-> FALSE]
    ELSE IF off = W(0)
         THEN IF body[1].k = "sample" /\ body[1].size = size
              THEN [found |-> TRUE, sample |-> body[1]]
              ELSE [found |-> FALSE]
         ELSE IF WLt(off, body[1].size) THEN [found |-> FALSE]
              ELSE SampleAt(Tail(body), WSub(off, body[1].size), size)

\* a video sample of the journal is scanned when all its bytes can be read
\* from P and they are one sample of at least four bytes
Scanned(file, fr) ==
    /\ fr.size # W(0)
    /\ WLe(WAdd(fr.offset, fr.size), SumSizes(file.body))
    /\ WLe(W(4), fr.size)
    /\ SampleAt(file.body, fr.offset, fr.size).found

\* extractH264ConfigFromSample: a parameter set found earlier is kept
ExtractH264ConfigFromSample(sample, sps, pps) ==
    [sps |-> IF Len(sps) = 0 THEN sample.sps ELSE sps,
     pps |-> IF Len(pps) = 0 THEN sample.pps ELSE pps]

RECURSIVE ExtractH264ConfigFromMdat(_, _, _, _, _)
\* the scan goes on with the parameter sets x found so far
ScanFrom(file, frames, i, x) ==
    ExtractH264ConfigFromMdat(file, frames, i, x.sps, x.pps)

\* extractH264ConfigFromMdat: scan the video samples in journal order
ExtractH264ConfigFromMdat(file, frames, i, sps, pps) ==
    IF i > Len(frames) \/ (Len(sps) > 0 /\ Len(pps) > 0)
    THEN [sps |-> sps, pps |-> pps]
    ELSE IF Scanned(file, frames[i])
         THEN ScanFrom(file, frames, i + 1,
                       ExtractH264ConfigFromSample(
                           SampleAt(file.body, frames[i].offset, frames[i].size).sample,
                           sps, pps))
         ELSE ExtractH264ConfigFromMdat(file, frames, i + 1, sps, pps)

\* recover after writeMoovToFile returned m: the sidecars are removed; a
\* refused removal is logged and recover returns true
RecoverFinish(r, m, fail) ==
    IF ~m.ok THEN [ok |-> FALSE, rec |-> r, fs |-> m.fs]
    ELSE [ok |-> TRUE,
          rec |-> IF fail = "remove" THEN r
                  ELSE [r EXCEPT !.idx_file = Unlinked(@), !.lock_file = Unlinked(@)],
          fs |-> CleanupFiles(m.fs, fail)]

\* recover after buildMoov returned b
RecoverAppend(r, f, b, fail) ==
    IF ~b.ok THEN [ok |-> FALSE, rec |-> r, fs |-> f]
    ELSE RecoverFinish(r, WriteMoovToFile(f, b.moov, fail), fail)

\* recover with the parameter sets x found in the mdat
RecoverBuild(r, f, recovery_config, frames, x, fail) ==
    RecoverAppend(r, f,
                  BuildMoov(frames.video, frames.audio, recovery_config,
                            x.sps, x.pps, MdatStart),
                  fail)

\* variant: the sidecars are removed before the moov is appended
RecoverMoovCleanupFirst(r, f, recovery_config, frames, fail) ==
    RecoverBuild(r, CleanupFiles(f, fail), recovery_config, frames,
                 ExtractH264ConfigFromMdat(f.mp4, frames.video, 1, NoBytes, NoBytes),
                 fail)

\* recover once the mdat size field is patched: extract the parameter sets,
\* build the moov, append it, remove the sidecars
RecoverMoov(r, f, recovery_config, frames, fail) ==
    RecoverBuild(r, f, recovery_config, frames,
                 ExtractH264ConfigFromMdat(f.mp4, frames.video, 1, NoBytes, NoBytes),
                 fail)

\* recover once the journal is read: open P, patch the mdat size field
RecoverPatch(r, f, recovery_config, frames, file_size, fail) ==
    IF ~f.mp4.exists \/ fail = "mp4_open" THEN [ok |-> FALSE, rec |-> r, fs |-> f]
    ELSE IF WLt(file_size, W(MdatStart)) THEN [ok |-> FALSE, rec |-> r, fs |-> f]
    ELSE IF ~FitsU32(WSub(file_size, W(MdatSizeFieldPos))) \/ fail = "size_write"
         THEN [ok |-> FALSE, rec |-> r, fs |-> f]
         ELSE RecoverMoov(r,
                          [f EXCEPT !.mp4.sizeField = TruncU32(WSub(file_size, W(MdatSizeFieldPos)))],
                          recovery_config, frames, fail)

RecoverCall(r, f, fail) ==
    IF ~f.idx.exists \/ fail = "idx_open" THEN [ok |-> FALSE, rec |-> r, fs |-> f]
    ELSE IF ~f.idx.hdr \/ fail = "idx_read" THEN [ok |-> FALSE, rec |-> r, fs |-> f]
    ELSE RecoverPatch(r, f, f.idx.cfg, ReadAllFrames(f.idx), Mp4FileSize(f.mp4), fail)

Recover(fail) ==
    /\ n.recovers < MaxRecovers
    /\ FaultAllowed(fail)
    /\ ~rec.recording
    /\ \E s \in {RecoverCall(rec, fs, fail)} :
           /\ rec' = s.rec
           /\ fs' = s.fs
           /\ lastOp' = Op("recover", s.ok, fail)
           /\ g' = IF s.ok /\ g.stage = "crashed"
                   THEN [g EXCEPT !.stage = "crash_recovered"]
                   ELSE IF s.ok THEN [g EXCEPT !.stage = "recovered"]
                   ELSE g
    /\ n' = [n EXCEPT !.recovers = @ + 1, !.faults = @ + Fault(fail)]

(***************************************************************************)
(* The process is killed inside recover, after the mdat size field was     *)
(* patched and before the sidecars are removed: before the moov is         *)
(* appended, with the moov partly appended, or with the whole moov         *)
(* appended.  The files are then as a recover leaves them that the file    *)
(* system stops at that operation.                                         *)
(***************************************************************************)
KillPoints == {"moov_open", "moov_write", "remove"}

RecoverKilled(point) ==
    /\ n.recovers < MaxRecovers
    /\ g.stage = "crashed"
    /\ RecoverCall(rec, fs, "none").ok
    /\ fs' = RecoverCall(rec, fs, point).fs
    /\ rec' = NewRecorder
    /\ lastOp' = Op("recoverKilled", FALSE, "none")
    /\ g' = [g EXCEPT !.stage = "recover_killed",
                      !.resumeMp4 = RecoverCall(rec, fs, "none").fs.mp4]
    /\ n' = [n EXCEPT !.recovers = @ + 1]

(***************************************************************************)
(* The caller asks hasIncompleteRecording(P).                              *)
(***************************************************************************)
Query ==
    /\ lastOp.op # "hasIncompleteRecording"
    /\ lastOp' = Op("hasIncompleteRecording", HasIncompleteRecording(fs), "none")
    /\ UNCHANGED <<fs, rec, g, n>>

Next ==
    \/ \E c \in Configs, fail \in StartFails : Start(c, fail)
    \/ \E in \in ParamSetInputs : SetH264Config(in)
    \/ \E in \in VideoInputs, elapsed \in BOOLEAN, fail \in WriteFails, part \in PartInputs :
          WriteVideoFrame(in, elapsed, fail, part)
    \/ \E size \in AudioSizes, elapsed \in BOOLEAN, fail \in WriteFails, part \in PartInputs :
          WriteAudioFrame(size, elapsed, fail, part)
    \/ SpillMp4
    \/ SpillIdx
    \/ \E fail \in StopFails : Stop(fail)
    \/ \E fail \in StopFails : Destroy(fail)
    \/ Crash
    \/ \E fail \in RecoverFails : Recover(fail)

Spec == Init /\ [][Next]_vars

\* the caller also asks hasIncompleteRecording
NextQuery ==
    \/ Next
    \/ Query

SpecQuery == Init /\ [][NextQuery]_vars

\* the process may also be killed inside recover
NextKilled ==
    \/ Next
    \/ \E point \in KillPoints : RecoverKilled(point)

SpecKilled == Init /\ [][NextKilled]_vars

\* the caller also makes calls in the wrong session state
NextAnyState ==
    \/ Next
    \/ StartWhileRecording(DefaultConfig)
    \/ \E in \in VideoInputs, size \in AudioSizes : WriteWhileNotRecording(in, size)
    \/ StopWhileNotRecording

SpecAnyState == Init /\ [][NextAnyState]_vars

\* the caller also starts a session on the path of an earlier one
NextRestart ==
    \/ \E c \in Configs, fail \in StartFails : Start(c, fail)
    \/ \E in \in ParamSetInputs : SetH264Config(in)
    \/ \E in \in VideoInputs, elapsed \in BOOLEAN, fail \in WriteFails, part \in PartInputs :
          WriteVideoFrame(in, elapsed, fail, part)
    \/ \E size \in AudioSizes, elapsed \in BOOLEAN, fail \in WriteFails, part \in PartInputs :
          WriteAudioFrame(size, elapsed, fail, part)
    \/ SpillMp4
    \/ SpillIdx
    \/ \E fail \in StopFails : Stop(fail)
    \/ Crash
    \/ \E c \in Configs, fail \in StartFails : Restart(c, fail)

SpecRestart == Init /\ [][NextRestart]_vars

\* the caller also sets the parameter sets more than once
NextSets ==
    \/ \E c \in Configs, fail \in StartFails : Start(c, fail)
    \/ \E in \in ParamSetInputs : SetH264Config(in)
    \/ \E in \in MoreParamSetInputs : SetH264ConfigAgain(in)
    \/ \E in \in VideoInputs, elapsed \in BOOLEAN, fail \in WriteFails, part \in PartInputs :
          WriteVideoFrame(in, elapsed, fail, part)
    \/ \E size \in AudioSizes, elapsed \in BOOLEAN, fail \in WriteFails, part \in PartInputs :
          WriteAudioFrame(size, elapsed, fail, part)
    \/ \E fail \in StopFails : Stop(fail)

SpecSets == Init /\ [][NextSets]_vars

\* the caller also passes empty buffers to the write calls
NextEmpty ==
    \/ \E c \in Configs, fail \in StartFails : Start(c, fail)
    \/ \E in \in ParamSetInputs : SetH264Config(in)
    \/ \E in \in VideoInputsWithEmpty, elapsed \in BOOLEAN, fail \in WriteFails,
          part \in PartInputs :
          WriteVideoFrame(in, elapsed, fail, part)
    \/ \E size \in AudioSizesWithEmpty, elapsed \in BOOLEAN, fail \in WriteFails,
          part \in PartInputs :
          WriteAudioFrame(size, elapsed, fail, part)
    \/ SpillMp4
    \/ SpillIdx
    \/ \E fail \in StopFails : Stop(fail)
    \/ Crash
    \/ \E fail \in RecoverFails : Recover(fail)

SpecEmpty == Init /\ [][NextEmpty]_vars

\* one recorder object used for a session after a session
MaxReuseSessions == 2

NextReuse ==
    \/ \E c \in Configs : StartWithin(MaxReuseSessions, c, "none")
    \/ \E in \in InterleavedVideoInputs, elapsed \in BOOLEAN :
          WriteVideoFrame(in, elapsed, "none", W(0))
    \/ \E size \in InterleavedAudioSizes, elapsed \in BOOLEAN :
          WriteAudioFrame(size, elapsed, "none", W(0))
    \/ \E fail \in StopFails : Stop(fail)

SpecReuse == Init /\ [][NextReuse]_vars

\* sessions that may be killed in the middle of a journal record
MaxTornWrites == 3

NextTorn ==
    \/ \E c \in Configs : Start(c, "none")
    \/ \E in \in VideoInputs, elapsed \in BOOLEAN :
          WriteVideoFrameWithin(MaxTornWrites, in, elapsed, "none", W(0))
    \/ \E size \in AudioSizes, elapsed \in BOOLEAN :
          WriteAudioFrameWithin(MaxTornWrites, size, elapsed, "none", W(0))
    \/ SpillMp4
    \/ SpillIdx
    \/ Crash
    \/ \E whole \in 0..MaxTornWrites, tail \in TornSizes : CrashTorn(whole, tail)
    \/ \E fail \in RecoverFails : Recover(fail)

SpecTorn == Init /\ [][NextTorn]_vars

\* a longer session in which video and audio writes interleave; the flush
\* interval may elapse before any write
NextInterleaved ==
    \/ \E c \in Configs : Start(c, "none")
    \/ \E in \in InterleavedVideoInputs, elapsed \in BOOLEAN :
          WriteVideoFrameWithin(MaxInterleaved, in, elapsed, "none", W(0))
    \/ \E size \in InterleavedAudioSizes, elapsed \in BOOLEAN :
          WriteAudioFrameWithin(MaxInterleaved, size, elapsed, "none", W(0))
    \/ \E fail \in StopFails : Stop(fail)
    \/ Crash
    \/ \E fail \in RecoverFails : Recover(fail)

SpecInterleaved == Init /\ [][NextInterleaved]_vars

(***************************************************************************)
(* extractH264ConfigFromSample, byte by byte.  Positions count from 0 as   *)
(* in the code.                                                            *)
(***************************************************************************)
MaxParamSize == 256

\* sample[i], and the bytes sample[a] .. sample[b - 1]
At(sample, i) == sample[i + 1]
Slice(sample, a, b) == SubSeq(sample, a + 1, b)

NoParamSets == [sps |-> NoBytes, pps |-> NoBytes]
BothFound(x) == Len(x.sps) > 0 /\ Len(x.pps) > 0

\* the lambda handleNal: the first SPS and the first PPS are kept, a NAL unit
\* of more than 256 bytes is passed over
HandleNal(nal, x) ==
    IF Len(nal) = 0 \/ Len(nal) > MaxParamSize THEN x
    ELSE IF nal[1] % 32 = 7 /\ Len(x.sps) = 0 THEN [x EXCEPT !.sps = nal]
    ELSE IF nal[1] % 32 = 8 /\ Len(x.pps) = 0 THEN [x EXCEPT !.pps = nal]
    ELSE x

\* the sample begins with 00 00 00 01 or with 00 00 01
HasStartCode(sample) ==
    \/ /\ Len(sample) >= 4
       /\ At(sample, 0) = 0 /\ At(sample, 1) = 0 /\ At(sample, 2) = 0 /\ At(sample, 3) = 1
    \/ /\ Len(sample) >= 3
       /\ At(sample, 0) = 0 /\ At(sample, 1) = 0 /\ At(sample, 2) = 1

\* the two tests of the scan loop at position pos (pos + 3 < size holds)
IsStart3(sample, pos) ==
    At(sample, pos) = 0 /\ At(sample, pos + 1) = 0 /\ At(sample, pos + 2) = 1
IsStart4(sample, pos) ==
    /\ pos + 4 < Len(sample)
    /\ At(sample, pos) = 0 /\ At(sample, pos + 1) = 0
    /\ At(sample, pos + 2) = 0 /\ At(sample, pos + 3) = 1
StartLen(sample, pos) == IF IsStart3(sample, pos) THEN 3 ELSE 4

\* the end of the Annex-B scan: the bytes after the last start code
AnnexBTail(x) == [ok |-> BothFound(x), sps |-> x.sps, pps |-> x.pps]

RECURSIVE ScanAnnexB(_, _, _, _)
\* a start code was found at pos; x holds the sets after the NAL unit before it
AnnexBAtStart(sample, pos, start, x) ==
    IF start < pos /\ BothFound(x) THEN [ok |-> TRUE, sps |-> x.sps, pps |-> x.pps]
    ELSE ScanAnnexB(sample, pos + StartLen(sample, pos), pos + StartLen(sample, pos), x)

\* the positions from pos on at which the loop finds a start code: the loop
\* steps over every other position with pos++
StartsFrom(sample, pos) ==
    { p \in pos..(Len(sample) - 4) : IsStart3(sample, p) \/ IsStart4(sample, p) }
FirstOf(positions) == CHOOSE p \in positions : \A q \in positions : p <= q

\* the loop  while (pos + 3 < sample.size())  and what follows it
ScanAnnexB(sample, pos, start, x) ==
    IF StartsFrom(sample, pos) # {}
    THEN AnnexBAtStart(sample, FirstOf(StartsFrom(sample, pos)), start,
                       IF start < FirstOf(StartsFrom(sample, pos))
                       THEN HandleNal(Slice(sample, start,
                                            FirstOf(StartsFrom(sample, pos))), x)
                       ELSE x)
    ELSE AnnexBTail(IF start < Len(sample)
                    THEN HandleNal(Slice(sample, start, Len(sample)), x)
                    ELSE x)

\* readBE32; a value of 2^31 or more is beyond every sample of the model and
\* is given as -1
ReadBE32(sample, pos) ==
    IF At(sample, pos) >= 128 THEN -1
    ELSE ((At(sample, pos) * 256 + At(sample, pos + 1)) * 256 + At(sample, pos + 2)) * 256
         + At(sample, pos + 3)

RECURSIVE ScanLengthPrefixed(_, _, _)
\* a NAL unit of nal_size bytes at pos was handled; x holds the sets after it
LengthPrefixedAfterNal(sample, pos, nal_size, x) ==
    IF BothFound(x) THEN [ok |-> TRUE, sps |-> x.sps, pps |-> x.pps]
    ELSE ScanLengthPrefixed(sample, pos + nal_size, x)

\* the loop body once nal_size was read; pos is behind the length field
LengthPrefixedNal(sample, pos, nal_size, x) ==
    IF nal_size = 0 \/ nal_size = -1 \/ nal_size > Len(sample) - pos
    THEN [ok |-> BothFound(x), sps |-> x.sps, pps |-> x.pps]
    ELSE LengthPrefixedAfterNal(sample, pos, nal_size,
                                HandleNal(Slice(sample, pos, pos + nal_size), x))

\* the loop  while (pos + 4 <= sample.size())
ScanLengthPrefixed(sample, pos, x) ==
    IF pos + 4 <= Len(sample)
    THEN LengthPrefixedNal(sample, pos + 4, ReadBE32(sample, pos), x)
    ELSE [ok |-> BothFound(x), sps |-> x.sps, pps |-> x.pps]

\* extractH264ConfigFromSample on the bytes of a sample; x holds the sets found
\* in earlier samples
ExtractFromSampleBytes(sample, x) ==
    IF Len(sample) < 4 THEN [ok |-> FALSE, sps |-> x.sps, pps |-> x.pps]
    ELSE IF HasStartCode(sample) THEN ScanAnnexB(sample, 0, 0, x)
    ELSE ScanLengthPrefixed(sample, 0, x)

(***************************************************************************)
(* The parameter sets recover puts into avcC for a journal of one video    *)
(* sample whose bytes are all in P.                                        *)
(***************************************************************************)
\* the big-endian 4-byte length field of a NAL unit of len bytes
LengthField(len) == <<0, 0, len \div 256, len % 256>>

\* a parameter set of len bytes: the NAL header byte, then payload bytes that
\* are never 0
ParamSetOfLen(nal_header, len) ==
    [i \in 1..len |-> IF i = 1 THEN nal_header ELSE 1 + ((i * 7) % 200)]

\* an IDR slice: NAL header 0x65 and three payload bytes
IdrSlice == <<101, 136, 132, 33>>

\* the first video sample: SPS, PPS, slice, each behind a 4-byte length field
\* or behind a 3- or 4-byte start code
FramedNal(framing, nal) ==
    IF framing = "length" THEN LengthField(Len(nal)) \o nal
    ELSE IF framing = "start4" THEN <<0, 0, 0, 1>> \o nal
    ELSE <<0, 0, 1>> \o nal

FirstSample(framing, sps, pps) ==
    FramedNal(framing, sps) \o FramedNal(framing, pps) \o FramedNal(framing, IdrSlice)

Framings == {"length", "start4", "start3"}
ParamSetLengths == {1, 2, 4, 15, 255, 256}

ExtractInputs ==
    { [op |-> "extractInput", ret |-> TRUE, fault |-> FALSE, fail |-> "none",
       framing |-> framing, sps_len |-> sl, pps_len |-> pl] :
      framing \in Framings, sl \in ParamSetLengths, pl \in ParamSetLengths }

InitExtract ==
    /\ fs = [mp4 |-> NoMp4, idx |-> NoIdx, lock |-> NoLock]
    /\ rec = NewRecorder
    /\ lastOp \in ExtractInputs
    /\ g = NoSession
    /\ n = [sessions |-> 0, writes |-> 0, sets |-> 0, faults |-> 0,
            crashes |-> 0, recovers |-> 0]

\* what recover embeds after the extraction returned x: buildStsd is given
\* the sets found, a set not found is replaced by the fallback
ExtractResult(in, x) ==
    [op |-> "extract", ret |-> x.ok, fault |-> FALSE, fail |-> "none",
     in |-> in,
     avcC |-> [sps |-> BuildStsd("avc1", x.sps, x.pps).sps,
               pps |-> BuildStsd("avc1", x.sps, x.pps).pps]]

ExtractStep ==
    /\ lastOp.op = "extractInput"
    /\ lastOp' = ExtractResult(lastOp,
                               ExtractFromSampleBytes(
                                   FirstSample(lastOp.framing,
                                               ParamSetOfLen(103, lastOp.sps_len),
                                               ParamSetOfLen(104, lastOp.pps_len)),
                                   NoParamSets))
    /\ UNCHANGED <<fs, rec, g, n>>

NextExtract == ExtractStep

SpecExtract == InitExtract /\ [][NextExtract]_vars

(***************************************************************************)
(* examples/multithreaded_recording.cpp: ThreadSafeRecorder and main.      *)
(* The state of the example is held in lastOp: the queue, its mutex, the   *)
(* two flags, the place each thread has reached, and what the recorder is  *)
(* doing.  The two producer threads are one thread here.                   *)
(***************************************************************************)
MaxFrames == 2        \* frames the producer enqueues

\* after ThreadSafeRecorder::start returned true and main created the threads
ThreadsStarted ==
    [op |-> "threads", ret |-> TRUE, fault |-> FALSE, fail |-> "none",
     frame_queue |-> <<>>,
     queue_mutex |-> "free",          \* free, or the thread that holds it
     recording |-> TRUE,              \* ThreadSafeRecorder::recording_
     shutdown |-> FALSE,              \* ThreadSafeRecorder::shutdown_
     processor |-> "loop",            \* processFrames: loop, lock, pred, towait,
                                      \* blocked, woken, locked, write, writing, done
     producer |-> "push",             \* push, notify, done
     main |-> "join_producers",       \* join_producers, stop, shutdown, notify,
                                      \* recorder_stop, stopping, join, exit
     enqueued |-> 0,
     in_write |-> FALSE,              \* a write call of recorder_ is executing
     in_stop |-> FALSE,               \* recorder_.stop() is executing
     recorder_recording |-> TRUE,     \* Mp4Recorder::recording_
     late_writes |-> 0]               \* write calls begun after recorder_.stop() began

InitThreads ==
    /\ fs = [mp4 |-> NoMp4, idx |-> NoIdx, lock |-> NoLock]
    /\ rec = NewRecorder
    /\ lastOp = ThreadsStarted
    /\ g = NoSession
    /\ n = [sessions |-> 0, writes |-> 0, sets |-> 0, faults |-> 0,
            crashes |-> 0, recovers |-> 0]

\* a thread of the example takes a step that leaves the example in state t
ThreadStep(t) ==
    /\ lastOp.op = "threads"
    /\ lastOp' = t
    /\ UNCHANGED <<fs, rec, g, n>>

\* notify_one / notify_all: a thread blocked in wait() is woken
Notified(t) ==
    IF t.processor = "blocked" THEN [t EXCEPT !.processor = "woken"] ELSE t

\* enqueueFrame: the frame is pushed under the mutex
EnqueueFramePush ==
    /\ lastOp.producer = "push"
    /\ lastOp.enqueued < MaxFrames
    /\ lastOp.queue_mutex = "free"
    /\ ThreadStep([lastOp EXCEPT !.frame_queue = Append(@, lastOp.enqueued + 1),
                                 !.enqueued = @ + 1,
                                 !.producer = "notify"])

\* enqueueFrame: queue_cv_.notify_one() once the mutex is released
EnqueueFrameNotify ==
    /\ lastOp.producer = "notify"
    /\ ThreadStep(Notified([lastOp EXCEPT !.producer =
                               IF lastOp.enqueued < MaxFrames THEN "push" ELSE "done"]))

\* processFrames: while (recording_ || !frame_queue_.empty())
ProcessFramesLoop ==
    /\ lastOp.processor = "loop"
    /\ ThreadStep([lastOp EXCEPT !.processor =
                      IF lastOp.recording \/ lastOp.frame_queue # <<>>
                      THEN "lock" ELSE "done"])

\* processFrames: unique_lock takes the mutex, at the head of the loop body or
\* when wait() returns from blocking
ProcessFramesLock ==
    /\ lastOp.processor \in {"lock", "woken"}
    /\ lastOp.queue_mutex = "free"
    /\ ThreadStep([lastOp EXCEPT !.queue_mutex = "processor", !.processor = "pred"])

\* wait(lock, pred): the predicate is evaluated with the mutex held
ProcessFramesPred ==
    /\ lastOp.processor = "pred"
    /\ ThreadStep([lastOp EXCEPT !.processor =
                      IF lastOp.frame_queue # <<>> \/ lastOp.shutdown
                      THEN "locked" ELSE "towait"])

\* wait(lock): the mutex is released and the thread blocks
ProcessFramesWait ==
    /\ lastOp.processor = "towait"
    /\ ThreadStep([lastOp EXCEPT !.queue_mutex = "free", !.processor = "blocked"])

\* wait(lock) may return without a notification
SpuriousWake ==
    /\ lastOp.processor = "blocked"
    /\ ThreadStep([lastOp EXCEPT !.processor = "woken"])

\* processFrames with the mutex held and the wait over: continue on an empty
\* queue, else take the front frame; the mutex is released either way
ProcessFramesTake ==
    /\ lastOp.processor = "locked"
    /\ ThreadStep(IF lastOp.frame_queue = <<>>
                  THEN [lastOp EXCEPT !.queue_mutex = "free", !.processor = "loop"]
                  ELSE [lastOp EXCEPT !.queue_mutex = "free", !.processor = "write",
                                      !.frame_queue = Tail(@)])

\* processFrames: recorder_.writeVideoFrame / writeAudioFrame is entered
ProcessFramesWriteBegin ==
    /\ lastOp.processor = "write"
    /\ ThreadStep([lastOp EXCEPT !.processor = "writing", !.in_write = TRUE,
                                 !.late_writes = IF lastOp.main \in {"stopping", "join", "exit"}
                                                 THEN @ + 1 ELSE @])

\* processFrames: the write call returns
ProcessFramesWriteEnd ==
    /\ lastOp.processor = "writing"
    /\ ThreadStep([lastOp EXCEPT !.processor = "loop", !.in_write = FALSE])

\* main: video_thread.join(); audio_thread.join()
MainJoinProducers ==
    /\ lastOp.main = "join_producers"
    /\ lastOp.producer = "done"
    /\ ThreadStep([lastOp EXCEPT !.main = "stop"])

\* ThreadSafeRecorder::stop: recording_ = false
ThreadSafeStopRecording ==
    /\ lastOp.main = "stop"
    /\ ThreadStep([lastOp EXCEPT !.recording = FALSE, !.main = "shutdown"])

\* ThreadSafeRecorder::stop: shutdown_ = true; the mutex is not taken
ThreadSafeStopShutdown ==
    /\ lastOp.main = "shutdown"
    /\ ThreadStep([lastOp EXCEPT !.shutdown = TRUE, !.main = "notify"])

\* ThreadSafeRecorder::stop: queue_cv_.notify_all()
ThreadSafeStopNotify ==
    /\ lastOp.main = "notify"
    /\ ThreadStep(Notified([lastOp EXCEPT !.main = "recorder_stop"]))

\* ThreadSafeRecorder::stop: recorder_.stop() is entered
ThreadSafeStopBegin ==
    /\ lastOp.main = "recorder_stop"
    /\ ThreadStep([lastOp EXCEPT !.main = "stopping", !.in_stop = TRUE])

\* ThreadSafeRecorder::stop: recorder_.stop() returns
ThreadSafeStopEnd ==
    /\ lastOp.main = "stopping"
    /\ ThreadStep([lastOp EXCEPT !.main = "join", !.in_stop = FALSE,
                                 !.recorder_recording = FALSE])

\* main: processor_thread.join()
MainJoinProcessor ==
    /\ lastOp.main = "join"
    /\ lastOp.processor = "done"
    /\ ThreadStep([lastOp EXCEPT !.main = "exit"])

ProducerNext == EnqueueFramePush \/ EnqueueFrameNotify

ProcessorNext ==
    \/ ProcessFramesLoop
    \/ ProcessFramesLock
    \/ ProcessFramesPred
    \/ ProcessFramesWait
    \/ ProcessFramesTake
    \/ ProcessFramesWriteBegin
    \/ ProcessFramesWriteEnd

MainNext ==
    \/ MainJoinProducers
    \/ ThreadSafeStopRecording
    \/ ThreadSafeStopShutdown
    \/ ThreadSafeStopNotify
    \/ ThreadSafeStopBegin
    \/ ThreadSafeStopEnd
    \/ MainJoinProcessor

NextThreads ==
    \/ ProducerNext
    \/ ProcessorNext
    \/ MainNext
    \/ SpuriousWake

SpecThreads == InitThreads /\ [][NextThreads]_vars

\* every thread that can take a step takes one in the end; a wait() that
\* returns without a notification is not something a thread can count on
SpecThreadsFair ==
    /\ InitThreads /\ [][NextThreads]_vars
    /\ WF_vars(ProducerNext)
    /\ WF_vars(ProcessorNext)
    /\ WF_vars(MainNext)

(***************************************************************************)
(* MoovBuilder::buildMoov on its own: the caller hands it two frame lists, *)
(* a configuration and parameter sets.                                     *)
(***************************************************************************)
MaxBuildVideo == 3    \* video frames handed to buildMoov
MaxBuildAudio == 2    \* audio frames handed to buildMoov

\* parameter sets of several lengths, with and without a start code; the empty
\* one makes buildStsd use its fallback
BuildSpsInputs ==
    { NoBytes, <<103>>, SpsA, <<0, 0, 0, 1>> \o SpsA, <<0, 0, 1>> \o SpsC,
      SpsA \o SpsB \o SpsC \o SpsA \o SpsB }
BuildPpsInputs == { NoBytes, <<104>>, PpsA, <<0, 0, 0, 1>> \o PpsC }

\* count frames of one track, 16 bytes each; the presentation times are evenly
\* spaced or not, every frame is a key frame or only the first
BuildFrames(count, track, even, allKey) ==
    [i \in 1..count |->
        [offset |-> W((i - 1) * 16), size |-> W(16),
         pts |-> IF even THEN PtsOf(i - 1) ELSE (i - 1) * (i - 1) * 500,
         dts |-> IF even THEN PtsOf(i - 1) ELSE (i - 1) * (i - 1) * 500,
         is_keyframe |-> IF allKey \/ i = 1 THEN 1 ELSE 0,
         track_id |-> track]]

BuildInputs ==
    { [op |-> "buildMoovInput", ret |-> TRUE, fault |-> FALSE, fail |-> "none",
       video |-> BuildFrames(nv, 0, even, allKey),
       audio |-> BuildFrames(na, 1, even, TRUE),
       sps |-> sps, pps |-> pps] :
      nv \in 0..MaxBuildVideo, na \in 0..MaxBuildAudio, even \in BOOLEAN,
      allKey \in BOOLEAN, sps \in BuildSpsInputs, pps \in BuildPpsInputs }

InitBuild ==
    /\ fs = [mp4 |-> NoMp4, idx |-> NoIdx, lock |-> NoLock]
    /\ rec = NewRecorder
    /\ lastOp \in BuildInputs
    /\ g = NoSession
    /\ n = [sessions |-> 0, writes |-> 0, sets |-> 0, faults |-> 0,
            crashes |-> 0, recovers |-> 0]

\* what buildMoov returned for the input in: the result and the size of the
\* moov as the recorder appends it, and the moov box by box
BuildMoovResult(in, b, tree) ==
    [op |-> "buildMoov", ret |-> b.ok, fault |-> FALSE, fail |-> "none",
     in |-> in, size |-> b.moov.size, tree |-> tree]

BuildMoovStep ==
    /\ lastOp.op = "buildMoovInput"
    /\ lastOp' = BuildMoovResult(lastOp,
                                 BuildMoov(lastOp.video, lastOp.audio, SessionConfig,
                                           lastOp.sps, lastOp.pps, MdatStart),
                                 MoovTree(lastOp.video, lastOp.audio, SessionConfig,
                                          lastOp.sps, lastOp.pps))
    /\ UNCHANGED <<fs, rec, g, n>>

NextBuild == BuildMoovStep

SpecBuild == InitBuild /\ [][NextBuild]_vars

(***************************************************************************)
(* Reading P back                                                          *)
(***************************************************************************)
IsMoovBox(item) == item.k = "moov"

\* the complete moov boxes that P holds
Moovs(file) == SelectSeq(file.body, IsMoovBox)

\* P ends with a complete moov box
EndsWithMoov(file) == file.body # <<>> /\ Last(file.body).k = "moov"

\* the caller's successful writes, each with the place its bytes went to
OkWrites(h) ==
    [i \in 1..Len(h.okFrames) |-> [frame |-> h.okFrames[i], at |-> h.okData[i]]]

OkVideo(w) == w.frame.track_id = 0
OkAudio(w) == w.frame.track_id = 1

\* the sample tables of trak list exactly the writes ws, in order: their sizes
\* and, as chunk offsets, the places in P where their bytes are
TrakDescribes(file, trak, ws) ==
    IF ws = <<>> THEN ~trak.present
    ELSE /\ trak.present
         /\ trak.stsz = [i \in 1..Len(ws) |-> ws[i].frame.size]
         /\ trak.stco = [i \in 1..Len(ws) |-> WAdd(W(MdatStart), ws[i].at)]
         /\ \A i \in 1..Len(ws) : SampleAt(file.body, ws[i].at, ws[i].frame.size).found

\* P holds one moov, at its end, that describes exactly the successful writes
MoovDescribes(file, h) ==
    /\ EndsWithMoov(file)
    /\ Len(Moovs(file)) = 1
    /\ TrakDescribes(file, Last(file.body).moov.video, SelectSeq(OkWrites(h), OkVideo))
    /\ TrakDescribes(file, Last(file.body).moov.audio, SelectSeq(OkWrites(h), OkAudio))

\* the moov at the end of P has a sample-table entry for the journaled frame
Listed(file, frame) ==
    /\ EndsWithMoov(file)
    /\ LET m == Last(file.body).moov
           trak == IF frame.track_id = 0 THEN m.video ELSE m.audio
       IN  /\ trak.present
           /\ \E j \in 1..Len(trak.stsz) :
                  trak.stsz[j] = frame.size /\ trak.stco[j] = WAdd(W(MdatStart), frame.offset)

\* the session stays below the 4 GiB limit of the format: P with all the bytes
\* handed to it, the moov apart, is at most 2^32 - 1 bytes long, so every chunk
\* offset and the mdat box size fit 32 bits
Below4GiB(h) == FitsU32(WAdd(W(MdatStart), h.pos))

\* this step is a call of recover
RecoverStep == lastOp'.op = "recover" /\ n'.recovers = n.recovers + 1

\* the file system refuses nothing during this step
NoNewFault == n'.faults = n.faults

C2_RecoverEqualsCleanStop ==
    [][(/\ g.stage = "crashed"
        /\ g.cleanOk
        /\ Len(g.okFrames) >= 1
        /\ Below4GiB(g)
        /\ g.flushed = Len(g.okFrames)
        /\ g.failedWrites = 0
        /\ n.faults = 0
        /\ RecoverStep
        /\ NoNewFault
        /\ lastOp'.ret)
       => fs'.mp4 = g.cleanMp4]_vars

(***************************************************************************)
(* C3  A crash loses at most the frames after the last completed flush.    *)
(***************************************************************************)
\* C3: every sample whose write returned before the last completed flush is
\* present in the moov that the recover following the crash produces.
\* (Sessions below the 4 GiB limit; beyond it recover is specified to fail.)
C3_FlushedFramesSurviveCrash ==
    [][(/\ g.stage = "crashed"
        /\ g.flushed >= 1
        /\ Below4GiB(g)
        /\ RecoverStep
        /\ NoNewFault)
       => (/\ lastOp'.ret
           /\ \A i \in 1..g.flushed : Listed(fs'.mp4, g.okFrames[i]))]_vars

\* a crash that came after an unflushed write has been recovered: the flushed
\* frames are listed
C3_Witness ==
    /\ g.stage = "crash_recovered"
    /\ lastOp.op = "recover" /\ lastOp.ret
    /\ g.flushed >= 1
    /\ g.flushed < Len(g.okFrames)
    /\ Below4GiB(g)
    /\ \A i \in 1..g.flushed : Listed(fs.mp4, g.okFrames[i])

(***************************************************************************)
(* C4  The journal on disk is never ahead of mdat on disk.                 *)
(***************************************************************************)
\* C4: at every crash point, every complete FrameRecord readable from P.idx
\* satisfies 40 + offset + size <= length of P.
C4_JournalNeverAheadOfMdat ==
    g.stage \in {"open", "crashed"} =>
        \A i \in 1..Len(fs.idx.recs) :
            WLe(WAdd(WAdd(W(MdatStart), fs.idx.recs[i].offset), fs.idx.recs[i].size),
                Mp4FileSize(fs.mp4))

(***************************************************************************)
(* C5  hasIncompleteRecording                                              *)
(***************************************************************************)
\* C5: in every reachable state hasIncompleteRecording(path) returns true if
\* and only if both path.idx and path.lock exist.
C5_IncompleteIffBothSidecars ==
    lastOp.op = "hasIncompleteRecording" =>
        (lastOp.ret <=> (fs.idx.exists /\ fs.lock.exists))

\* the question was asked with the journal present and the lock missing
C5_Witness ==
    /\ lastOp.op = "hasIncompleteRecording"
    /\ fs.idx.exists /\ ~fs.lock.exists
    /\ ~lastOp.ret

(***************************************************************************)
(* C6  Success of stop or recover means the sidecars are gone.             *)
(***************************************************************************)
\* C6: whenever stop() or recover(path) returns success, neither P.idx nor
\* P.lock exists and hasIncompleteRecording(path) is false.
C6_SuccessLeavesNoSidecar ==
    (lastOp.op \in {"stop", "recover"} /\ lastOp.ret) =>
        (~fs.idx.exists /\ ~fs.lock.exists /\ ~HasIncompleteRecording(fs))

(***************************************************************************)
(* C7  Destruction without stop.                                           *)
(***************************************************************************)
\* C7: destroying a recording Mp4Recorder without calling stop() leaves the
\* session interrupted: P.idx and P.lock exist, the mdat size field is
\* still 0, no moov has been appended, hasIncompleteRecording(path) is true.
C7_DestroyLeavesSessionInterrupted ==
    (lastOp.op = "destroy" /\ g.stage = "destroyed") =>
        (/\ fs.idx.exists /\ fs.lock.exists
         /\ fs.mp4.sizeField = W(0)
         /\ Moovs(fs.mp4) = <<>>
         /\ HasIncompleteRecording(fs))

(***************************************************************************)
(* C8  A failed stop can be completed by recover.                          *)
(***************************************************************************)
\* C8: if stop() returns failure, P.idx and P.lock still exist, and the
\* recover(path) that follows returns success and produces a file that holds
\* every sample whose write had succeeded before stop was called.
C8_FailedStopIsRecoverable ==
    [][/\ (lastOp'.op = "stop" /\ ~lastOp'.ret /\ g.stage = "open")
          => (fs'.idx.exists /\ fs'.lock.exists)
       /\ (/\ g.stage = "stopfailed"
           /\ Below4GiB(g)
           /\ n.crashes = 0
           /\ RecoverStep
           /\ NoNewFault)
          => (/\ lastOp'.ret
              /\ \A i \in 1..Len(g.okFrames) : Listed(fs'.mp4, g.okFrames[i]))]_vars

(***************************************************************************)
(* C9  A failed recover leaves the sidecars as they were.                  *)
(***************************************************************************)
\* C9: whenever recover(path) returns failure, P.idx and P.lock are as they
\* were before the call (present with the same contents when they were
\* present), so recover can be retried.
C9_FailedRecoverKeepsSidecars ==
    [][(RecoverStep /\ ~lastOp'.ret)
       => (fs'.idx = fs.idx /\ fs'.lock = fs.lock)]_vars

\* recover has failed after it patched the size field of P, and the journal
\* with its records and the lock are in place
C9_Witness ==
    /\ lastOp.op = "recover" /\ ~lastOp.ret
    /\ fs.idx.exists /\ fs.idx.recs # <<>>
    /\ fs.lock.exists
    /\ fs.mp4.sizeField # W(0)

(***************************************************************************)
(* C10  recover twice in succession.                                       *)
(***************************************************************************)
\* C10: when recover(path) has completed on an interrupted session and is
\* run again, P has the same bytes after the second run as after the first:
\* no second moov is appended and the mdat size field is not patched again.
C10_SecondRecoverLeavesP ==
    [][(lastOp.op = "recover" /\ lastOp.ret /\ RecoverStep)
       => fs'.mp4 = fs.mp4]_vars

(***************************************************************************)
(* C11  recover is killed between the size patch and the removal of the    *)
(* sidecars, and is run again.                                             *)
(***************************************************************************)
\* C11: when recover is interrupted by a kill after the mdat size patch and
\* before the sidecars are unlinked (the moov not yet, partly or fully
\* appended), running recover again succeeds and yields the P an
\* uninterrupted recover yields: the same mdat size field and exactly one moov.
C11_KilledRecoverResumes ==
    [][(/\ g.stage = "recover_killed"
        /\ RecoverStep
        /\ NoNewFault)
       => (/\ lastOp'.ret
           /\ fs'.mp4.sizeField = g.resumeMp4.sizeField
           /\ Len(Moovs(fs'.mp4)) = 1
           /\ fs'.mp4 = g.resumeMp4)]_vars

(***************************************************************************)
(* C12  Calls made in the wrong session state.                             *)
(***************************************************************************)
\* C12: start() on a recorder that is recording returns false and leaves the
\* recorder (config, open files, counters, frame lists) and the files as they
\* are; writeVideoFrame, writeAudioFrame and stop on a recorder that is not
\* recording return false and write nothing, neither to a file nor to a stream.
C12_WrongStateCallsRejected ==
    [][/\ (rec.recording /\ lastOp'.op = "start")
          => (~lastOp'.ret /\ rec' = rec /\ fs' = fs)
       /\ (~rec.recording /\ lastOp'.op \in {"writeFrame", "stop"})
          => (~lastOp'.ret /\ rec' = rec /\ fs' = fs)]_vars

\* start() was rejected on a session that holds a journaled frame
C12_Witness ==
    /\ lastOp.op = "start" /\ ~lastOp.ret
    /\ rec.recording
    /\ rec.config = SessionConfig
    /\ Len(rec.video_frames) >= 1
    /\ rec.idx_file.open

(***************************************************************************)
(* C13  Sessions and journals without a frame.                             *)
(***************************************************************************)
\* C13: stop() on a session in which no frame was written, and recover(path)
\* on a journal that holds no record, fail, append no moov to P and leave
\* P.idx and P.lock in place.
C13_NoFramesFails ==
    [][/\ (/\ rec.recording /\ lastOp'.op = "stop"
           /\ rec.video_frames = <<>> /\ rec.audio_frames = <<>>
           /\ g.calls.v = 0 /\ g.calls.a = 0)
          => (/\ ~lastOp'.ret
              /\ Moovs(fs'.mp4) = <<>>
              /\ fs'.idx.exists /\ fs'.lock.exists)
       /\ (/\ RecoverStep
           /\ fs.idx.exists /\ fs.idx.hdr /\ fs.idx.recs = <<>>)
          => (/\ ~lastOp'.ret
              /\ Moovs(fs'.mp4) = Moovs(fs.mp4)
              /\ fs'.idx = fs.idx /\ fs'.lock = fs.lock)]_vars

(***************************************************************************)
(* C14  Chunk offsets beyond 32 bits.                                      *)
(***************************************************************************)
\* a sample of the list has 40 + offset > 2^32 - 1
OffsetOverflows(frames) ==
    \E i \in 1..Len(frames) : ~FitsU32(WAdd(W(MdatStart), frames[i].offset))

\* C14: a write whose sample gets an offset with 40 + offset > 2^32 - 1 still
\* succeeds; once such a sample is journaled, stop() and recover() fail, no
\* moov is appended to P and both sidecars remain.
C14_OffsetOverflowFailsFinalize ==
    [][/\ (/\ rec.recording /\ IsWrite(lastOp') /\ ~lastOp'.fault
           /\ (n'.writes = n.writes + 1)
           /\ ~FitsU32(WAdd(W(MdatStart), rec.mdat_size)))
          => (/\ lastOp'.ret
              /\ OffsetOverflows(rec'.video_frames \o rec'.audio_frames))
       /\ (/\ rec.recording /\ lastOp'.op = "stop"
           /\ OffsetOverflows(rec.video_frames \o rec.audio_frames))
          => (/\ ~lastOp'.ret
              /\ Moovs(fs'.mp4) = <<>>
              /\ fs'.idx.exists /\ fs'.lock.exists)
       /\ (/\ RecoverStep
           /\ fs.idx.exists /\ fs.idx.hdr /\ fs.lock.exists
           /\ OffsetOverflows(fs.idx.recs))
          => (/\ ~lastOp'.ret
              /\ Moovs(fs'.mp4) = Moovs(fs.mp4)
              /\ fs'.idx = fs.idx /\ fs'.lock = fs.lock)]_vars

\* recover has failed, without an I/O error, on a journal whose second record
\* has an offset beyond 32 bits, and stop had failed on that session before
C14_Witness ==
    /\ lastOp.op = "recover" /\ ~lastOp.ret /\ ~lastOp.fault
    /\ g.stage = "stopfailed"
    /\ n.faults = 0
    /\ Len(g.okFrames) = 2
    /\ OffsetOverflows(fs.idx.recs)
    /\ fs.idx.exists /\ fs.lock.exists
    /\ Moovs(fs.mp4) = <<>>

(***************************************************************************)
(* C15  The journal records partition the mdat payload.                    *)
(***************************************************************************)
\* the records appended to the journal so far, in append order: those the
\* operating system has and those still in the stream of P.idx
JournalRecords ==
    fs.idx.recs \o [i \in 1..Len(SelectSeq(rec.idx_file.buf, NotHdr)) |->
                        SelectSeq(rec.idx_file.buf, NotHdr)[i].frame]

\* each record starts where the one before it ends, the first at 0
Contiguous(recs) ==
    /\ Len(recs) > 0 => recs[1].offset = W(0)
    /\ \A i \in 1..(Len(recs) - 1) :
           recs[i + 1].offset = WAdd(recs[i].offset, recs[i].size)

\* the end of the last record
EndOf(recs) ==
    IF recs = <<>> THEN W(0) ELSE WAdd(Last(recs).offset, Last(recs).size)

\* C15: after any sequence of successful write calls the journal records, in
\* append order and both tracks together, satisfy offset_0 = 0 and
\* offset_(i+1) = offset_i + size_i, and the last offset + size is the number
\* of payload bytes written to mdat.
C15_JournalPartitionsPayload ==
    (g.stage = "open" /\ g.failedWrites = 0) =>
        (/\ Contiguous(JournalRecords)
         /\ EndOf(JournalRecords) = g.pos
         /\ Len(JournalRecords) = Len(g.okFrames))

\* a video and an audio sample were journaled, one after the other
C15_Witness ==
    /\ g.stage = "open" /\ g.failedWrites = 0
    /\ Len(JournalRecords) = 2
    /\ JournalRecords[1].track_id # JournalRecords[2].track_id
    /\ JournalRecords[2].offset = JournalRecords[1].size
    /\ JournalRecords[1].size # W(0)

(***************************************************************************)
(* C16  A failed mdat write poisons the session.                           *)
(***************************************************************************)
\* C16: once a write call has failed because the mdat write failed or was
\* only partial, the next write call on that session (and so every later
\* one) fails too and appends nothing to the journal.
C16_FailedMdatWritePoisons ==
    [][(/\ IsWrite(lastOp) /\ ~lastOp.ret /\ lastOp.fail = "mdat_write"
        /\ rec.recording
        /\ IsWrite(lastOp') /\ n'.writes = n.writes + 1)
       => (~lastOp'.ret /\ JournalRecords' = JournalRecords)]_vars

(***************************************************************************)
(* C17  A failed mdat write journals nothing.                              *)
(***************************************************************************)
\* this step is a write call during which the write to P failed
FailedMdatWriteStep ==
    /\ rec.recording
    /\ IsWrite(lastOp') /\ n'.writes = n.writes + 1
    /\ lastOp'.fail = "mdat_write"

\* C17: when the mdat write of a frame fails, the call fails, no FrameRecord
\* for the frame is appended to the journal or to the in-memory frame lists,
\* mdat_size and the frame count are unchanged and the records journaled
\* earlier are untouched: journal and frame lists hold exactly the frames
\* journaled before the failure, which is what a recovery is built from.
C17_FailedMdatWriteJournalsNothing ==
    [][FailedMdatWriteStep
       => (/\ ~lastOp'.ret
           /\ JournalRecords' = JournalRecords
           /\ fs'.idx = fs.idx
           /\ rec'.idx_file = rec.idx_file
           /\ rec'.video_frames = rec.video_frames
           /\ rec'.audio_frames = rec.audio_frames
           /\ rec'.mdat_size = rec.mdat_size
           /\ rec'.frame_count = rec.frame_count
           /\ ReadAllFrames(fs'.idx) = ReadAllFrames(fs.idx))]_vars

\* a write to P came back short after a frame had been journaled
C17_Witness ==
    /\ IsWrite(lastOp) /\ ~lastOp.ret /\ lastOp.fail = "mdat_write"
    /\ rec.recording
    /\ Len(JournalRecords) = 1
    /\ rec.frame_count = 1
    /\ g.pos # rec.mdat_size

(***************************************************************************)
(* C18  A failed start leaves nothing behind.                              *)
(***************************************************************************)
\* this step is a start() call that returned false
FailedStartStep ==
    /\ lastOp'.op = "start" /\ ~lastOp'.ret
    /\ n'.sessions = n.sessions + 1

\* C18: a start that fails removes every artifact it created: none of P,
\* P.idx, P.lock exists afterwards unless it existed before the call, and
\* isRecording() is false.
C18_FailedStartLeavesNothing ==
    [][FailedStartStep
       => (/\ ~rec'.recording
           /\ (fs'.mp4.exists => fs.mp4.exists)
           /\ (fs'.idx.exists => fs.idx.exists)
           /\ (fs'.lock.exists => fs.lock.exists))]_vars

(***************************************************************************)
(* C19  start on a path that holds an interrupted session.                 *)
(***************************************************************************)
\* this step is a start() call made while the recorder is not recording
StartStep == lastOp'.op = "start" /\ n'.sessions = n.sessions + 1

\* the journal record frame is still in the journal, or P ends in a moov
\* that lists its sample
Preserved(f, frame) ==
    \/ \E i \in 1..Len(f.idx.recs) : f.idx.recs[i] = frame
    \/ Listed(f.mp4, frame)

\* C19: start(path) on a path on which an interrupted session exists (P.idx
\* and P.lock are present, the session below the 4 GiB limit) recovers that
\* session: the samples its journal holds are not destroyed by the new
\* start; each is listed by a moov of P or still recorded in the journal.
C19_StartRecoversInterrupted ==
    [][(/\ g.stage = "crashed"
        /\ HasIncompleteRecording(fs)
        /\ fs.idx.recs # <<>>
        /\ Below4GiB(g)
        /\ StartStep
        /\ NoNewFault)
       => \A i \in 1..Len(fs.idx.recs) : Preserved(fs', fs.idx.recs[i])]_vars

(***************************************************************************)
(* C20  stop releases the three file handles.                              *)
(***************************************************************************)
\* this step is a stop() call on a recording session
StopStep == rec.recording /\ lastOp'.op = "stop"

\* C20: on every exit path of stop(), whether it returns true or false, the
\* handles of P, of the journal and of the lock have all been closed.
C20_StopReleasesHandles ==
    [][StopStep => NoHandles(rec')]_vars

(***************************************************************************)
(* C21  The parameter sets stop() embeds.                                  *)
(***************************************************************************)
\* this step is a call of setH264Config
SetStep == lastOp'.op = "setH264Config" /\ n'.sets = n.sets + 1

\* the call of this step passes a null pointer or a size of 0
SetStepInvalid == Len(lastOp'.sps) = 0 \/ Len(lastOp'.pps) = 0

\* C21, the setter: a call with a null pointer or a zero size returns false
\* and leaves the stored parameter sets as they were; any other call returns
\* true and stores what it was given (the last call wins).
C21_SetterStoresLastCall ==
    [][SetStep
       => IF SetStepInvalid
          THEN /\ ~lastOp'.ret
               /\ rec'.h264_sps = rec.h264_sps /\ rec'.h264_pps = rec.h264_pps
          ELSE /\ lastOp'.ret
               /\ rec'.h264_sps = lastOp'.sps /\ rec'.h264_pps = lastOp'.pps]_vars

\* C21: the SPS and PPS that a successful stop() embeds in avcC are those
\* stored by the last successful setH264Config call made before the stop,
\* whenever that call was made relative to start and to the writes.
C21_StopEmbedsLastConfig ==
    /\ C21_SetterStoresLastCall
    /\ [][(/\ rec.recording
           /\ lastOp'.op = "stop" /\ lastOp'.ret
           /\ rec.video_frames # <<>>
           /\ Len(rec.h264_sps) > 0)
          => (/\ EndsWithMoov(fs'.mp4)
              /\ Last(fs'.mp4.body).moov.video.present
              /\ Last(fs'.mp4.body).moov.video.avcC.sps = rec.h264_sps
              /\ Last(fs'.mp4.body).moov.video.avcC.pps = rec.h264_pps)]_vars

\* a stop has embedded the parameter sets of a second successful call
C21_Witness ==
    /\ lastOp.op = "stop" /\ lastOp.ret
    /\ n.sets = 2
    /\ EndsWithMoov(fs.mp4)
    /\ Last(fs.mp4.body).moov.video.present
    /\ Last(fs.mp4.body).moov.video.avcC.sps = SpsC
    /\ Last(fs.mp4.body).moov.video.avcC.pps = PpsC

(***************************************************************************)
(* C22  The three boxes of a finalized file add up to its length.          *)
(***************************************************************************)
\* P is ftyp, mdat, moov and nothing else: it ends with a complete moov and
\* 32 + the mdat size field + the moov size is the length of the file
BoxesFillFile(file) ==
    /\ file.hdr
    /\ EndsWithMoov(file)
    /\ WAdd(WAdd(W(MdatSizeFieldPos), file.sizeField), Last(file.body).size)
           = Mp4FileSize(file)

\* this step is a stop() or a recover() that returned true, of a session with
\* at least one journaled frame that stays below the 4 GiB limit
FinalizeStep ==
    /\ Below4GiB(g)
    /\ \/ /\ rec.recording /\ lastOp'.op = "stop" /\ lastOp'.ret
          /\ Len(rec.video_frames) + Len(rec.audio_frames) > 0
       \/ /\ RecoverStep /\ lastOp'.ret
          /\ fs.idx.recs # <<>>

\* C22: after a successful stop() or recover(), P consists of exactly ftyp,
\* mdat and moov: 32 + the value of the mdat size field + the moov size equals
\* the file length, after any sequence of writes, failed and partial writes
\* included.
C22_BoxesFillFile ==
    [][FinalizeStep => BoxesFillFile(fs'.mp4)]_vars

(***************************************************************************)
(* C23  The chunk offsets of a finalized file.                             *)
(***************************************************************************)
\* the chunk offsets of trak are strictly increasing and each lies in
\* [40, file length - moov size)
StcoInRange(file, trak) ==
    trak.present =>
        /\ \A i \in 1..Len(trak.stco) - 1 : WLt(trak.stco[i], trak.stco[i + 1])
        /\ \A i \in 1..Len(trak.stco) :
               /\ WLe(W(MdatStart), trak.stco[i])
               /\ WLt(trak.stco[i], WSub(Mp4FileSize(file), Last(file.body).size))

\* this step is a stop() or a recover() that returned true
FinalizedStep ==
    \/ rec.recording /\ lastOp'.op = "stop" /\ lastOp'.ret
    \/ RecoverStep /\ lastOp'.ret

\* C23: in the moov of every successfully finalized file the stco entries of
\* each track are strictly increasing and every entry lies in
\* [40, file_length - moov_size), for every sequence of accepted writes,
\* frames of size 0 included when they are accepted.
C23_StcoIncreasingInRange ==
    [][(FinalizedStep /\ g.failedWrites = 0)
       => (/\ EndsWithMoov(fs'.mp4)
           /\ StcoInRange(fs'.mp4, Last(fs'.mp4.body).moov.video)
           /\ StcoInRange(fs'.mp4, Last(fs'.mp4.body).moov.audio))]_vars

(***************************************************************************)
(* C24  Write calls with an empty buffer.                                  *)
(***************************************************************************)
\* this step is a write call with an empty buffer: no byte was handed to P,
\* and the file system refused nothing
EmptyWriteStep ==
    /\ rec.recording
    /\ IsWrite(lastOp') /\ n'.writes = n.writes + 1
    /\ lastOp'.fail = "none"
    /\ g'.pos = g.pos

\* C24: writeVideoFrame/writeAudioFrame called with an empty buffer (size 0)
\* is rejected locally: it returns false and leaves mdat, the journal, the
\* frame lists and the frame count unchanged.
C24_EmptyBufferRejected ==
    [][EmptyWriteStep
       => (/\ ~lastOp'.ret
           /\ fs'.mp4 = fs.mp4 /\ rec'.mp4_file = rec.mp4_file
           /\ JournalRecords' = JournalRecords
           /\ rec'.video_frames = rec.video_frames
           /\ rec'.audio_frames = rec.audio_frames
           /\ rec'.frame_count = rec.frame_count)]_vars

(***************************************************************************)
(* C25  The sample tables follow the per-track call order.                 *)
(***************************************************************************)
\* the tables of trak list the journal records recs of its track, in order:
\* entry i of stco is 40 + the offset of record i, entry i of stsz its size
TablesFollow(trak, recs) ==
    IF recs = <<>> THEN ~trak.present
    ELSE /\ trak.present
         /\ trak.stco = [i \in 1..Len(recs) |-> WAdd(W(MdatStart), recs[i].offset)]
         /\ trak.stsz = [i \in 1..Len(recs) |-> recs[i].size]

\* the moov at the end of file lists the journal records recs, track by track
MoovFollows(file, recs) ==
    /\ EndsWithMoov(file)
    /\ TablesFollow(Last(file.body).moov.video, SelectSeq(recs, IsVideo))
    /\ TablesFollow(Last(file.body).moov.audio, SelectSeq(recs, IsAudio))

\* C25: for each track, the i-th stco entry of a finalized file equals 40 +
\* the offset of the i-th record written for that track, in call order, and
\* the i-th stsz entry equals its size, for every interleaving of video and
\* audio writes; the journal records themselves partition the payload in call
\* order (V500, A200, A200, V500, A200 gives video stco [40, 940] and audio
\* stco [540, 740, 1440]).
C25_TablesFollowCallOrder ==
    /\ [][(rec.recording /\ lastOp'.op = "stop" /\ lastOp'.ret)
          => MoovFollows(fs'.mp4, JournalRecords)]_vars
    /\ [][(RecoverStep /\ lastOp'.ret) => MoovFollows(fs'.mp4, fs.idx.recs)]_vars
    /\ [](g.stage = "open" => /\ Contiguous(JournalRecords)
                              /\ JournalRecords = g.okFrames)

\* the session V500, A200, A200, V500, A200 has been stopped
C25_Witness ==
    /\ lastOp.op = "stop" /\ lastOp.ret
    /\ EndsWithMoov(fs.mp4)
    /\ Last(fs.mp4.body).moov.video.present
    /\ Last(fs.mp4.body).moov.audio.present
    /\ Last(fs.mp4.body).moov.video.stco = <<W(40), W(940)>>
    /\ Last(fs.mp4.body).moov.audio.stco = <<W(540), W(740), W(1440)>>
    /\ Last(fs.mp4.body).moov.video.stsz = <<W(500), W(500)>>
    /\ Last(fs.mp4.body).moov.audio.stsz = <<W(200), W(200), W(200)>>

(***************************************************************************)
(* C26  stts: the sample durations, run-length encoded.                    *)
(***************************************************************************)
\* the durations that the runs of an stts table stand for, sample by sample
RECURSIVE Expand(_)
Expand(runs) ==
    IF runs = <<>> THEN <<>>
    ELSE [i \in 1..runs[1][1] |-> runs[1][2]] \o Expand(Tail(runs))

\* the duration the final sample of a track is to receive
FinalDuration(frames, codec, timescale) ==
    IF codec = "mp4a" THEN 1024
    ELSE IF Len(frames) >= 2 THEN frames[Len(frames)].pts - frames[Len(frames) - 1].pts
    ELSE IF timescale \div 30 >= 1 THEN timescale \div 30 ELSE 1

\* the duration every sample of a track is to receive
Durations(frames, codec, timescale) ==
    [i \in 1..Len(frames) |->
        IF i < Len(frames) THEN frames[i + 1].pts - frames[i].pts
        ELSE FinalDuration(frames, codec, timescale)]

\* runs is the run-length encoding of the durations of frames
SttsEncodes(runs, frames, codec, timescale) ==
    /\ \A k \in 1..Len(runs) : runs[k][1] >= 1
    /\ \A k \in 1..Len(runs) - 1 : runs[k][2] # runs[k + 1][2]
    /\ Expand(runs) = Durations(frames, codec, timescale)

\* the stts of trak encodes the durations of the frames of its track
SttsOfTrak(trak, frames) ==
    trak.present => SttsEncodes(trak.stts, frames, trak.codec, trak.mdhd_timescale)

\* C26: stts run-length-encodes the successive PTS deltas of the track, the
\* final sample receiving the default duration: 1024 for an audio track,
\* whatever the number of its samples; for a video track the previous delta
\* if it has at least 2 samples, else max(timescale / 30, 1).  The sample
\* counts of the entries sum to the number of samples of the track.
C26_SttsRunLengthEncodes ==
    [][(rec.recording /\ lastOp'.op = "stop" /\ lastOp'.ret)
       => (/\ EndsWithMoov(fs'.mp4)
           /\ SttsOfTrak(Last(fs'.mp4.body).moov.video, rec.video_frames)
           /\ SttsOfTrak(Last(fs'.mp4.body).moov.audio, rec.audio_frames))]_vars

(***************************************************************************)
(* C27  mvhd.duration.                                                     *)
(***************************************************************************)
\* duration in ms of a track: last_pts * 1000 / track_timescale
TrackDurationMs(frames, timescale) ==
    IF frames = <<>> THEN 0 ELSE (Last(frames).pts * 1000) \div timescale

MaxOf(a, b) == IF a >= b THEN a ELSE b

\* C27: mvhd.duration equals the maximum, over the tracks present, of
\* last_pts * 1000 / track_timescale; in particular it is the duration of the
\* audio track for an audio-only recording or when the audio track is longer
\* than the video track.
C27_MvhdDurationIsMaxTrack ==
    [][(/\ rec.recording /\ lastOp'.op = "stop" /\ lastOp'.ret
        /\ Len(rec.video_frames) + Len(rec.audio_frames) > 0)
       => (/\ EndsWithMoov(fs'.mp4)
           /\ Last(fs'.mp4.body).moov.mvhd_duration
                = MaxOf(TrackDurationMs(rec.video_frames, rec.config.video_timescale),
                        TrackDurationMs(rec.audio_frames, rec.config.audio_timescale)))]_vars

(***************************************************************************)
(* C28  Box sizes of the moov.                                             *)
(***************************************************************************)
\* the boxes of a tree: the box itself, its children, their children
RECURSIVE AllBoxes(_), AllKids(_)
AllBoxes(b) == {b} \cup AllKids(b.kids)
AllKids(kids) ==
    IF kids = <<>> THEN {} ELSE AllBoxes(kids[1]) \cup AllKids(Tail(kids))

\* C28: in every moov that buildMoov produces, the declared size of each box
\* equals the number of bytes from its size field to the end of its last
\* child, and the declared size of the moov equals the length of the byte
\* sequence returned (which is the number of bytes the recorder appends to
\* P), for every combination of present tracks and of SPS/PPS lengths, the
\* fallback parameter sets included.
C28_DeclaredSizesAreActual ==
    (lastOp.op = "buildMoov" /\ lastOp.ret)
    => /\ \A b \in AllBoxes(lastOp.tree) : b.declared = BoxBytes(b)
       /\ lastOp.tree.declared = BoxBytes(lastOp.tree)
       /\ lastOp.tree.declared = lastOp.size

\* a moov with both tracks, the fallback parameter sets and a two-entry stts
\* has been built: moov, mvhd and two traks, boxes of 24 types in all
C28_Witness ==
    /\ lastOp.op = "buildMoov" /\ lastOp.ret
    /\ Len(lastOp.in.video) = 3 /\ Len(lastOp.in.audio) = 2
    /\ lastOp.in.sps = NoBytes /\ lastOp.in.pps = NoBytes
    /\ lastOp.in.video[2].pts = 500
    /\ Len(lastOp.tree.kids) = 3
    /\ Cardinality({b.type : b \in AllBoxes(lastOp.tree)}) = 24
    /\ \A b \in AllBoxes(lastOp.tree) : b.declared = BoxBytes(b)

(***************************************************************************)
(* C29  Parameter sets extracted from the first video sample.              *)
(***************************************************************************)
\* C29: when the first video sample starts with a 4-byte length-prefixed SPS
\* (NAL type 7) followed by a PPS (NAL type 8) and a slice, each parameter set
\* of any length from 1 to 256 bytes, recover embeds exactly those SPS and PPS
\* bytes in avcC; the same holds when the sample uses Annex-B start codes.
C29_ExtractedSetsEmbedded ==
    lastOp.op = "extract"
    => /\ lastOp.avcC.sps = ParamSetOfLen(103, lastOp.in.sps_len)
       /\ lastOp.avcC.pps = ParamSetOfLen(104, lastOp.in.pps_len)

\* the inputs apart from a length-prefixed sample whose SPS is 1 or 256 bytes
\* long, whose length field reads as a start code
C29_LengthFieldNotStartCode ==
    (lastOp.op = "extract"
     /\ ~(lastOp.in.framing = "length" /\ lastOp.in.sps_len \in {1, 256}))
    => /\ lastOp.avcC.sps = ParamSetOfLen(103, lastOp.in.sps_len)
       /\ lastOp.avcC.pps = ParamSetOfLen(104, lastOp.in.pps_len)
       /\ lastOp.ret

(***************************************************************************)
(* C30  Reading a journal that ends in the middle of a record.             *)
(***************************************************************************)
\* the journal without the bytes of its incomplete last record
WithoutTail(f) == [f EXCEPT !.idx.tail = 0]

\* recover is called on a journal that ends in the middle of a record
TornRecoverStep == RecoverStep /\ fs.idx.hdr /\ fs.idx.tail > 0

\* C30: readAllFrames returns exactly floor((journal length - header size) /
\* sizeof(FrameInfo)) records, in file order, split by track_id into the video
\* and the audio list; a partial trailing record is ignored and makes neither
\* readAllFrames nor recover fail: recover does what it does on the journal
\* cut back to its last whole record.
C30_WholeRecordsRead ==
    /\ [](fs.idx.exists /\ fs.idx.hdr
          => /\ Len(ReadLoop(fs.idx, IdxHeaderSize, <<>>))
                  = (IdxFileSize(fs.idx) - IdxHeaderSize) \div FrameInfoSize
             /\ Len(ReadLoop(fs.idx, IdxHeaderSize, <<>>)) = IndexFrameCount(fs.idx)
             /\ ReadLoop(fs.idx, IdxHeaderSize, <<>>) = fs.idx.recs
             /\ ReadAllFrames(fs.idx).video = SelectSeq(fs.idx.recs, IsVideo)
             /\ ReadAllFrames(fs.idx).audio = SelectSeq(fs.idx.recs, IsAudio)
             /\ Len(ReadAllFrames(fs.idx).video) + Len(ReadAllFrames(fs.idx).audio)
                  = Len(fs.idx.recs))
    /\ [][TornRecoverStep
          => /\ lastOp'.ret = RecoverCall(rec, WithoutTail(fs), lastOp'.fail).ok
             /\ fs'.mp4 = RecoverCall(rec, WithoutTail(fs), lastOp'.fail).fs.mp4]_vars

\* a killed session whose journal holds a video and an audio record and 39
\* bytes of a third record
C30_Witness ==
    /\ g.stage = "crashed"
    /\ fs.idx.hdr /\ fs.idx.tail = 39
    /\ Len(ReadAllFrames(fs.idx).video) = 1
    /\ Len(ReadAllFrames(fs.idx).audio) = 1
    /\ IdxFileSize(fs.idx) = IdxHeaderSize + 2 * FrameInfoSize + 39

(***************************************************************************)
(* C31  The four steps of a flush.                                         *)
(***************************************************************************)
\* this step is a write call during which the file system refuses fail
WriteStepFailing(fail) ==
    /\ rec.recording
    /\ IsWrite(lastOp') /\ n'.writes = n.writes + 1
    /\ lastOp'.fail = fail

\* this step is a write call that is due to flush by the frame count and
\* during which nothing is refused
FlushingWriteStep ==
    /\ WriteStepFailing("none")
    /\ rec.frames_since_flush + 1 >= rec.config.flush_frame_count

\* the payload bytes of P that fsync has made durable
DurablePayload(f) ==
    IF f.mp4.synced <= 0 THEN W(0) ELSE SumSizes(SubSeq(f.mp4.body, 1, f.mp4.synced))

\* every journal record that is durable describes bytes of P that are durable
DurableJournalBehindMdat(f) ==
    \A i \in 1..f.idx.synced :
        WLe(WAdd(f.idx.recs[i].offset, f.idx.recs[i].size), DurablePayload(f))

\* C31: every flush performs its four steps in the order stream flush of
\* mdat, stream flush of the journal, durable sync of mdat, durable sync of
\* the journal; the journal is never synced before mdat (whenever more of the
\* journal becomes durable, all of mdat is durable already and holds the
\* bytes of every durable record), and if a step fails the later steps are
\* not performed and the write returns failure.
C31_FlushStepsInOrder ==
    /\ [][fs'.idx.synced > fs.idx.synced /\ fs'.idx.synced >= 1
          => /\ fs'.mp4.synced = Len(fs'.mp4.body)
             /\ DurableJournalBehindMdat(fs')]_vars
    /\ [][FlushingWriteStep
          => /\ lastOp'.ret
             /\ rec'.mp4_file.buf = <<>> /\ rec'.idx_file.buf = <<>>
             /\ fs'.mp4.synced = Len(fs'.mp4.body)
             /\ fs'.idx.synced = Len(fs'.idx.recs)]_vars
    /\ [][WriteStepFailing("flush_mp4")
          => ~lastOp'.ret /\ fs' = fs]_vars
    /\ [][WriteStepFailing("flush_idx")
          => /\ ~lastOp'.ret
             /\ rec'.mp4_file.buf = <<>>
             /\ fs'.idx = fs.idx
             /\ fs'.mp4.synced = fs.mp4.synced]_vars
    /\ [][WriteStepFailing("sync_mp4")
          => /\ ~lastOp'.ret
             /\ rec'.mp4_file.buf = <<>> /\ rec'.idx_file.buf = <<>>
             /\ fs'.mp4.synced = fs.mp4.synced
             /\ fs'.idx.synced = fs.idx.synced]_vars
    /\ [][WriteStepFailing("sync_idx")
          => /\ ~lastOp'.ret
             /\ rec'.mp4_file.buf = <<>> /\ rec'.idx_file.buf = <<>>
             /\ fs'.mp4.synced = Len(fs'.mp4.body)
             /\ fs'.idx.synced = fs.idx.synced]_vars

\* the sync of the journal was refused after a sample was written: the sample
\* is durable in P, its record is not
C31_Witness ==
    /\ IsWrite(lastOp) /\ lastOp.fail = "sync_idx" /\ ~lastOp.ret
    /\ fs.mp4.synced = Len(fs.mp4.body) /\ fs.mp4.synced >= 1
    /\ fs.idx.synced < Len(fs.idx.recs)

(***************************************************************************)
(* C32  What stop() has made durable.                                      *)
(***************************************************************************)
IsSample(item) == item.k = "sample"

\* every sample the operating system has of P is durable
SamplesDurable(f) ==
    \A i \in 1..Len(f.mp4.body) : IsSample(f.mp4.body[i]) => i <= f.mp4.synced

\* every record written to the journal is in P.idx and durable
JournalDurable(f, recs) ==
    f.idx.exists => (f.idx.recs = recs /\ f.idx.synced = Len(recs))

\* C32: stop() flushes and durably syncs both mdat and the journal before it
\* patches the mdat size field and appends moov, so that from then on every
\* written sample and its journal record are on disk.
C32_StopSyncsBeforePatch ==
    [][(StopStep /\ lastOp'.fail \in {"none"} \cup MoovFails)
       => /\ SamplesDurable(fs')
          /\ JournalDurable(fs', JournalRecords)]_vars

(***************************************************************************)
(* C33  The journal header and the lock.                                   *)
(***************************************************************************)
\* C33: at every crash point during or after start(), if P.lock exists then
\* P.idx exists and durably holds the complete magic and configuration
\* header: the header is written and synced before the lock is created.
C33_LockImpliesDurableHeader ==
    fs.lock.exists => (fs.idx.exists /\ fs.idx.hdr /\ fs.idx.synced >= 0)

(***************************************************************************)
(* C34  The sidecars outlive the samples until the moov is appended.       *)
(***************************************************************************)
\* P holds a sample
HoldsSample(f) == \E i \in 1..Len(f.mp4.body) : IsSample(f.mp4.body[i])

\* a moov has been appended to P in full
HoldsMoov(f) == \E i \in 1..Len(f.mp4.body) : IsMoovBox(f.mp4.body[i])

C35_OffsetIsPlaceWritten ==
    g.stage = "open"
    => \A i \in 1..Len(g.okFrames) :
         \A j \in 1..Len(JournalRecords) :
            JournalRecords[j] = g.okFrames[i]
               => JournalRecords[j].offset = g.okData[i]

(***************************************************************************)
(* C36  A write call that fails records nothing.                           *)
(***************************************************************************)
\* this step is a write call that returns false
FailedWriteStep ==
    /\ rec.recording
    /\ IsWrite(lastOp') /\ n'.writes = n.writes + 1
    /\ ~lastOp'.ret

\* C36: a writeVideoFrame/writeAudioFrame call that returns failure has not
\* recorded the frame: the journal, the in-memory frame lists, mdat_size and
\* getFrameCount() are what they were before the call, also when the failure
\* occurs in the flush step after the frame was appended.
C36_FailedWriteRecordsNothing ==
    [][FailedWriteStep
       => /\ JournalRecords' = JournalRecords
          /\ rec'.video_frames = rec.video_frames
          /\ rec'.audio_frames = rec.audio_frames
          /\ rec'.mdat_size = rec.mdat_size
          /\ rec'.frame_count = rec.frame_count]_vars

(***************************************************************************)
(* C37  A recorder object used for a second session.                       *)
(***************************************************************************)
\* this step is a start() that returns true on a recorder that has already
\* run a session
SecondStartStep == StartStep /\ lastOp'.ret /\ n.sessions >= 1

\* C37: when one Mp4Recorder instance is used for a second start/write/stop
\* session after a successful stop, the in-memory frame lists, mdat_size and
\* the frame count all restart from empty at start(), and the moov of the
\* second file describes only the samples written in the second session.
C37_SecondSessionStartsEmpty ==
    /\ [][SecondStartStep
          => /\ rec'.video_frames = <<>>
             /\ rec'.audio_frames = <<>>
             /\ rec'.mdat_size = W(0)
             /\ rec'.frame_count = 0]_vars
    /\ [][(StopStep /\ lastOp'.ret /\ n.sessions >= 2)
          => MoovFollows(fs'.mp4, g.okFrames)]_vars

(***************************************************************************)
(* C38  The mdat size field written by stop().                             *)
(***************************************************************************)
\* C38: the mdat size field written by stop() is 8 + the payload bytes
\* written, as an exact value: stop never succeeds after writing a size that
\* was truncated modulo 2^32, as when the last sample starts below 4 GiB and
\* ends above it.
C38_StopSizeFieldExact ==
    [][(StopStep /\ lastOp'.ret)
       => fs'.mp4.sizeField = WAdd(W(8), rec.mdat_size)]_vars

(***************************************************************************)
(* C39: in the multithreaded example the calls into the one Mp4Recorder    *)
(* are serialised: recorder_.stop() on the main thread never executes      *)
(* while the processing thread is inside writeVideoFrame or                *)
(* writeAudioFrame, and the processing thread enters no write call once    *)
(* recorder_.stop() has begun.                                             *)
(***************************************************************************)
C39_RecorderCallsSerialized ==
    lastOp.op = "threads" =>
        /\ ~(lastOp.in_stop /\ lastOp.in_write)
        /\ lastOp.late_writes = 0

(***************************************************************************)
(* C40: in the multithreaded example, once ThreadSafeRecorder::stop() has  *)
(* been called, processFrames() returns in the end under every             *)
(* interleaving, so that processor_thread.join() completes.                *)
(***************************************************************************)
StopCalled == lastOp.op = "threads" /\ lastOp.main \notin {"join_producers", "stop"}

C40_ProcessFramesReturns == StopCalled ~> (lastOp.processor = "done")

====
